---- MODULE Spec2Model ----
(***************************************************************************)
(* Clip-generation pipeline of RellingAssignment (Electron main process). *)
(*                                                                         *)
(* One media asset, id VideoId, is followed through the metadata store     *)
(* (videos, clips and clip_jobs tables), its clip directory and the        *)
(* segmenter runs started for it.  The main process is single threaded:    *)
(* a handler, and every continuation of an async function, runs to its     *)
(* next await of an external command (ffprobe, ffmpeg) without any other   *)
(* handler in between.  So an action is one such run-to-completion piece.  *)
(*                                                                         *)
(* Units: durations are in hundredths of a second (0.01 s), wall-clock     *)
(* time in staleness windows (10 minutes).  The wall clock is kept         *)
(* relative to the one timestamp the program stores: the clip_jobs row     *)
(* carries age = Date.now() - updated_at, which a write of the row sets to *)
(* 0 and the passing of time increases.                                    *)
(***************************************************************************)
EXTENDS Integers, Sequences, FiniteSets, TLC

(***************************************************************************)
(* Bounds of the model                                                     *)
(***************************************************************************)
\* number of invocations of generateClipsForVideo that can be suspended at once
MaxRuns == 2
\* the source is long enough for at most MaxClips clips
MaxClips == 2
\* staleness windows the clock can run on after a write of the job row
MaxTime == 2
\* chunks of output a child writes
MaxChunks == 2
\* concurrent callers of getDurationSeconds
MaxCallers == 3
\* clip indices 0..MaxIndex are given a file name
MaxIndex == 1000
\* entries of a scanned clip directory
MaxEntries == 3
\* numerators and denominators of frame-rate expressions are -1..MaxRate
MaxRate == 1

(***************************************************************************)
(* Program constants                                                       *)
(***************************************************************************)
CLIP_LEN_SECONDS == 120
\* clipPipeline.ts:73, "len <= 0.01", in hundredths of a second
LEN_EPSILON == 1
\* recovery.ts:3, 10 minutes, in staleness windows
STALE_MS == 1
\* runCommand.ts:38, the exit code of a command killed by its timeout
TIMEOUT_EXIT == 124

CLIP_LEN == CLIP_LEN_SECONDS * 100

VideoId == "v1"
VideoStatus == {"Pending", "Approved", "Rejected"}
ClipJobState == {"NotStarted", "Generating", "Done", "Failed"}

\* a nullable value is a sequence of length 0 (null) or 1
NULL == <<>>
Some(x) == <<x>>

\* exit codes a child process can close with, as runCommand reports them
ExitCodes == {0, 1, TIMEOUT_EXIT}

Ceil(a, b) == (a + b - 1) \div b
Max(a, b) == IF a >= b THEN a ELSE b
Min(a, b) == IF a <= b THEN a ELSE b

\* what a duration leaves after its full clip lengths: nothing, the negligible
\* length of line 73, and just above it
Remainders == {0, LEN_EPSILON, LEN_EPSILON + 1}

\* durations of the source file: > 0 and at most MaxClips clip lengths
Durations ==
  {d \in {k * CLIP_LEN + rem : k \in 0..MaxClips, rem \in Remainders} :
     d > 0 /\ d <= MaxClips * CLIP_LEN}

\* clip indices a run can reach for the durations above
Indices == 0..(MaxClips - 1)

\* what is at clipPath(video_id, i): nothing, a file of at most 1024 bytes, a larger one
FileStates == {"none", "small", "big"}

Runs == 1..MaxRuns

VARIABLES
  status,         \* videos.status
  metadata,       \* videos.metadata_json: "none", "unknown" (no usable duration), "known"
  error_message,  \* videos.error_message, nullable
  job,            \* the clip_jobs row, nullable
  clips,          \* clip_index of the rows of table clips
  files,          \* the clip directory: index -> FileStates
  ffmpegLog,      \* entries appended to <video_id>-ffmpeg.log
  activeJobs,     \* the in-flight set of clipPipeline.ts
  runs,           \* the invocations of generateClipsForVideo, suspended or ended
  srcDuration,    \* duration of original.mp4, what a successful probe reports
  phase,          \* "up": the process serves requests, "down": it has crashed
  jobWrites,      \* the changes <<from, to>> of clip_jobs.state made by the last step
  bf,             \* the scan of the clips:backfillMetadata handler, suspended or ended
  cmd,            \* a call of runCommand: its child, its timer and its promise
  calls,          \* calls of getDurationSeconds for the asset, suspended or ended
  probe,          \* a call of extractVideoMetadata: its ffprobe child and its result
  asset,          \* what videos:delete removes: the videos row and the copied original
  clipRows,       \* table clips: clip_index -> number of rows with that index
  scan,           \* a call of backfillClipMetadata on a clip directory, entry by entry
  naming          \* a clip index, the file name clipPath gives it, and how that parses

vars == <<status, metadata, error_message, job, clips, files, ffmpegLog,
          activeJobs, runs, srcDuration, phase, jobWrites, bf, cmd, calls,
          probe, asset, clipRows, scan, naming>>

\* what the segmenter, the backfill handler and the recovery sweep work on
pipelineVars == <<status, error_message, job, clips, files, ffmpegLog,
                  activeJobs, runs, phase, jobWrites, bf>>

(***************************************************************************)
(* An invocation of generateClipsForVideo.  pc is "idle" when it has ended *)
(* (or never started), otherwise the await it is suspended at; i, duration,*)
(* total, existingRows and latest are its locals, todo the directory       *)
(* entries its backfill pre-pass has still to visit.  The other fields     *)
(* record what the invocation found and did, for the properties; the code  *)
(* reads none of them: how it ended (outcome, exitCode), whether it        *)
(* started on a Done job (fromDone) and on an empty clip directory and     *)
(* table (fromEmpty), the segments <<start, len>> it got to (plan), and    *)
(* the indices it passed over as complete, deleted the file of, started    *)
(* the transcoder for and upserted a row for.                              *)
(***************************************************************************)
IdleRun == [pc |-> "idle", i |-> 0, duration |-> 0, total |-> 0,
            existingRows |-> {}, todo |-> {}, latest |-> "none",
            outcome |-> "none", exitCode |-> 0,
            fromDone |-> FALSE, fromEmpty |-> FALSE, plan |-> <<>>,
            transcoded |-> {}, skipped |-> {}, deleted |-> {}, upserted |-> {}]

\* the state a piece of code works on: the store, the directory, and its own run
Pack(r) == [status |-> status, metadata |-> metadata, error_message |-> error_message,
            job |-> job, clips |-> clips, files |-> files, ffmpegLog |-> ffmpegLog,
            activeJobs |-> activeJobs, run |-> runs[r], jobWrites |-> <<>>,
            clipRows |-> clipRows]

Commit(s, r) ==
  /\ status' = s.status
  /\ metadata' = s.metadata
  /\ error_message' = s.error_message
  /\ job' = s.job
  /\ clips' = s.clips
  /\ files' = s.files
  /\ ffmpegLog' = s.ffmpegLog
  /\ activeJobs' = s.activeJobs
  /\ runs' = [runs EXCEPT ![r] = s.run]
  /\ jobWrites' = s.jobWrites
  /\ clipRows' = s.clipRows
  /\ UNCHANGED <<bf, cmd, calls, probe, asset, scan, naming>>

(***************************************************************************)
(* db/queries.ts                                                           *)
(***************************************************************************)
updateVideoStatus(s, st) == [s EXCEPT !.status = st]

\* faulty variant: the update also puts the asset back to Pending
setVideoError_ResetsStatus(s, msg) == [s EXCEPT !.error_message = msg, !.status = "Pending"]

setVideoError(s, msg) == [s EXCEPT !.error_message = msg]

saveVideoMetadata(s, m) == [s EXCEPT !.metadata = m]

JobStateOf(j) == IF j = NULL THEN "NoRecord" ELSE j[1].state

\* faulty variant: a field that is not given keeps the stored value
setClipJobState_KeepsFields(s, state, stderr, exitCode) ==
  [s EXCEPT !.job = Some([state |-> state,
                          last_stderr |-> IF stderr = NULL /\ s.job # NULL
                                            THEN s.job[1].last_stderr ELSE stderr,
                          last_exit_code |-> IF exitCode = NULL /\ s.job # NULL
                                               THEN s.job[1].last_exit_code ELSE exitCode,
                          age |-> 0]),
            !.jobWrites = IF JobStateOf(s.job) = state THEN @
                          ELSE Append(@, <<JobStateOf(s.job), state>>)]

\* faulty variant: the update leaves updated_at as it was
setClipJobState_KeepsTime(s, state, stderr, exitCode) ==
  [s EXCEPT !.job = Some([state |-> state, last_stderr |-> stderr,
                          last_exit_code |-> exitCode,
                          age |-> IF s.job = NULL THEN 0 ELSE s.job[1].age]),
            !.jobWrites = IF JobStateOf(s.job) = state THEN @
                          ELSE Append(@, <<JobStateOf(s.job), state>>)]

setClipJobState(s, state, stderr, exitCode) ==
  [s EXCEPT !.job = Some([state |-> state, last_stderr |-> stderr,
                          last_exit_code |-> exitCode, age |-> 0]),
            !.jobWrites = IF JobStateOf(s.job) = state THEN @
                          ELSE Append(@, <<JobStateOf(s.job), state>>)]

\* faulty variant: a plain INSERT into a table without the UNIQUE constraint
InsertOrUpdate_Inserts(rows, idx) == [rows EXCEPT ![idx] = @ + 1]

\* INSERT ... ON CONFLICT(video_id, clip_index) DO UPDATE, on the row counts:
\* a row is added when none has the key, otherwise the one that has it is
\* rewritten
InsertOrUpdate(rows, idx) == [rows EXCEPT ![idx] = IF @ = 0 THEN 1 ELSE @]

\* faulty variant: the statement is prepared but never run
upsertClip_NotRun(s, idx) == [s EXCEPT !.run.upserted = @ \cup {idx}]

upsertClip(s, idx) ==
  [s EXCEPT !.clips = @ \cup {idx}, !.run.upserted = @ \cup {idx},
            !.clipRows = InsertOrUpdate(@, idx)]

listClips(s) == s.clips

(***************************************************************************)
(* clipPipeline.ts                                                         *)
(***************************************************************************)
\* faulty variant: the size test the wrong way round
fileLooksComplete_Inverted(fs, idx) == fs[idx] = "small"

fileLooksComplete(fs, idx) == fs[idx] = "big"

\* faulty variant: the file is left where it is
safeUnlink_Noop(s, idx) == s

safeUnlink(s, idx) ==
  IF s.files[idx] = "none" THEN s
  ELSE [s EXCEPT !.files[idx] = "none", !.run.deleted = @ \cup {idx}]

\* faulty variant: rounds down
TotalClips_Floor(d) == Max(1, d \div CLIP_LEN)

\* line 58
TotalClips(d) == Max(1, Ceil(d, CLIP_LEN))

\* line 71
SegStart(idx) == idx * CLIP_LEN

\* faulty variant: the length is not capped at the clip length
SegLen_NoCap(d, idx) == Max(0, d - SegStart(idx))

\* line 72
SegLen(d, idx) == Min(CLIP_LEN, Max(0, d - SegStart(idx)))

\* faulty variant: the loop does not look at the status it has read
StillApproved_Unchecked(latest) == TRUE

\* line 63
StillApproved(latest) == latest = "Approved"

\* the finally block, and the end of the invocation
\* faulty variant: the id stays in the in-flight set
Release_KeepsGuard(s, how) ==
  [s EXCEPT !.run.pc = "idle", !.run.outcome = how,
            !.run.existingRows = {}, !.run.todo = {}]

Release(s, how) ==
  [s EXCEPT !.activeJobs = @ \ {VideoId},
            !.run.pc = "idle", !.run.outcome = how,
            !.run.existingRows = {}, !.run.todo = {}]

\* faulty variant: a run stopped at a boundary check removes the clips it has
RECURSIVE SegmentLoop_CleansUp(_)
SegmentLoop_CleansUp(s0) ==
  LET idx == s0.run.i
      s == [s0 EXCEPT !.run.latest = IF idx < s0.run.total THEN s0.status ELSE @]
      seg == <<SegStart(idx), SegLen(s.run.duration, idx)>>
      s1 == [s EXCEPT !.run.plan = Append(@, seg)]
  IN
  IF idx >= s.run.total
    THEN Release(setClipJobState(s, "Done", NULL, Some(0)), "done")
  ELSE IF ~StillApproved(s.run.latest)
    THEN Release(setClipJobState(
                   [s EXCEPT !.files = [k \in Indices |-> "none"], !.clips = {}],
                   "Failed", <<"Stopped", s.run.latest>>, NULL), "stopped")
  ELSE IF seg[2] <= LEN_EPSILON
    THEN Release(setClipJobState(s, "Done", NULL, Some(0)), "done")
  ELSE IF fileLooksComplete(s1.files, idx)
    THEN IF idx \notin s1.run.existingRows
           THEN [s1 EXCEPT !.run.pc = "skipProbe", !.run.skipped = @ \cup {idx}]
           ELSE SegmentLoop_CleansUp([s1 EXCEPT !.run.i = idx + 1,
                                                !.run.skipped = @ \cup {idx}])
  ELSE [safeUnlink(s1, idx) EXCEPT !.run.pc = "transcode",
                                   !.run.transcoded = @ \cup {idx}]

\* the segment loop, from the top of iteration s.run.i to the next await or the end
RECURSIVE SegmentLoop(_)
SegmentLoop(s0) ==
  LET idx == s0.run.i
      \* line 62
      s == [s0 EXCEPT !.run.latest = IF idx < s0.run.total THEN s0.status ELSE @]
      \* lines 71-75
      seg == <<SegStart(idx), SegLen(s.run.duration, idx)>>
      s1 == [s EXCEPT !.run.plan = Append(@, seg)]
  IN
  IF idx >= s.run.total
    THEN Release(setClipJobState(s, "Done", NULL, Some(0)), "done")
  ELSE IF ~StillApproved(s.run.latest)
    THEN Release(setClipJobState(s, "Failed", <<"Stopped", s.run.latest>>, NULL), "stopped")
  ELSE IF seg[2] <= LEN_EPSILON
    THEN Release(setClipJobState(s, "Done", NULL, Some(0)), "done")
  ELSE IF fileLooksComplete(s1.files, idx)
    THEN IF idx \notin s1.run.existingRows
           THEN [s1 EXCEPT !.run.pc = "skipProbe", !.run.skipped = @ \cup {idx}]
           ELSE SegmentLoop([s1 EXCEPT !.run.i = idx + 1, !.run.skipped = @ \cup {idx}])
  ELSE [safeUnlink(s1, idx) EXCEPT !.run.pc = "transcode",
                                   !.run.transcoded = @ \cup {idx}]

\* line 57-58 once the duration is known
PlanAndLoop(s, d) ==
  SegmentLoop([s EXCEPT !.run.duration = d, !.run.total = TotalClips(d), !.run.i = 0])

(***************************************************************************)
(* duration.ts (in mediaProtocol.ts): getDurationSeconds up to its probe   *)
(***************************************************************************)
getDurationSeconds(s) ==
  IF s.metadata = "known"
    THEN PlanAndLoop(s, srcDuration)
    ELSE [s EXCEPT !.run.pc = "durProbe"]

(***************************************************************************)
(* clipMetadataBackfill.ts, as the segmenter's pre-pass: the scan from the *)
(* next directory entry to the next probe.  readdirSync gives the entries  *)
(* in no specified order, so any remaining entry can come next.  Entries   *)
(* of at most 1024 bytes are passed over without a probe.                  *)
(***************************************************************************)
backfillClipMetadata(s) ==
  IF s.run.todo = {}
    THEN {getDurationSeconds([s EXCEPT !.run.existingRows = listClips(s)])}
    ELSE {[s EXCEPT !.run.pc = "bfProbe", !.run.i = f, !.run.todo = @ \ {f}] :
            f \in s.run.todo}

\* faulty variant: the job is marked Generating before the status is looked at
EnterRun_MarksFirst(s) ==
  LET s1 == [s EXCEPT !.activeJobs = @ \cup {VideoId},
                      !.run = [IdleRun EXCEPT
                                 !.fromDone = (JobStateOf(s.job) = "Done"),
                                 !.fromEmpty = (s.clips = {} /\
                                                \A idx \in Indices : s.files[idx] = "none")]]
      s2 == setClipJobState(setVideoError(s1, NULL), "Generating", NULL, NULL)
      existingRows == listClips(s2)
      hasAnyFiles == \E idx \in Indices : s2.files[idx] # "none"
  IN
  IF s1.status # "Approved" THEN {Release(s2, "notApproved")}
  ELSE IF hasAnyFiles /\ existingRows = {}
    THEN backfillClipMetadata(
           [s2 EXCEPT !.run.todo = {idx \in Indices : s2.files[idx] = "big"}])
    ELSE {getDurationSeconds([s2 EXCEPT !.run.existingRows = existingRows])}

\* generateClipsForVideo past its entry guard, to its first await (lines 32-57)
EnterRun(s) ==
  LET s1 == [s EXCEPT !.activeJobs = @ \cup {VideoId},
                      !.run = [IdleRun EXCEPT
                                 !.fromDone = (JobStateOf(s.job) = "Done"),
                                 !.fromEmpty = (s.clips = {} /\
                                                \A idx \in Indices : s.files[idx] = "none")]]
  IN
  IF s1.status # "Approved" THEN {Release(s1, "notApproved")}
  ELSE
    LET s2 == setClipJobState(setVideoError(s1, NULL), "Generating", NULL, NULL)
        existingRows == listClips(s2)
        hasAnyFiles == \E idx \in Indices : s2.files[idx] # "none"
    IN
    IF hasAnyFiles /\ existingRows = {}
      THEN backfillClipMetadata(
             [s2 EXCEPT !.run.todo = {idx \in Indices : s2.files[idx] = "big"}])
      ELSE {getDurationSeconds([s2 EXCEPT !.run.existingRows = existingRows])}

\* faulty variant: no entry guard
generateClipsForVideo_NoGuard(s) == EnterRun(s)

\* faulty variant: the guard is tested inside the try block, so a refused
\* invocation goes through the finally block
generateClipsForVideo_ReleasesOnSkip(s) ==
  IF VideoId \in s.activeJobs
    THEN {Release([s EXCEPT !.run = IdleRun], "skipped")}
    ELSE EnterRun(s)

\* generateClipsForVideo from its call (line 30); an invocation turned away by the
\* entry guard has ended at once, with outcome "skipped"
generateClipsForVideo(s) ==
  IF VideoId \in s.activeJobs
    THEN {[s EXCEPT !.run = [IdleRun EXCEPT !.outcome = "skipped"]]}
    ELSE EnterRun(s)

\* the run slot a new invocation takes
FreeRun == CHOOSE r \in Runs : runs[r].pc = "idle" /\ \A q \in Runs : runs[q].pc = "idle" => r <= q

(***************************************************************************)
(* ipcVideos.ts: the trigger handlers                                      *)
(***************************************************************************)
\* faulty variant: the handler awaits the run it starts and requests are served
\* one at a time, so no request is handled while a run is suspended
SetStatus_AwaitsRun(st) ==
  /\ phase = "up"
  /\ \A r \in Runs : runs[r].pc = "idle"
  /\ LET s1 == updateVideoStatus(Pack(FreeRun), st) IN
     IF st = "Approved"
       THEN \E s2 \in generateClipsForVideo(s1) : Commit(s2, FreeRun)
       ELSE Commit(s1, FreeRun)
  /\ UNCHANGED <<srcDuration, phase>>

\* videos:setStatus
SetStatus(st) ==
  /\ phase = "up"
  /\ \E r \in Runs : runs[r].pc = "idle"
  /\ LET s1 == updateVideoStatus(Pack(FreeRun), st) IN
     IF st = "Approved"
       THEN \E s2 \in generateClipsForVideo(s1) : Commit(s2, FreeRun)
       ELSE Commit(s1, FreeRun)
  /\ UNCHANGED <<srcDuration, phase>>

\* clips:generate
Generate ==
  /\ phase = "up"
  /\ \E r \in Runs : runs[r].pc = "idle"
  /\ \E s2 \in generateClipsForVideo(Pack(FreeRun)) : Commit(s2, FreeRun)
  /\ UNCHANGED <<srcDuration, phase>>

(***************************************************************************)
(* The continuations of generateClipsForVideo: an external command has     *)
(* closed and the invocation runs on to its next await or to its end.  An  *)
(* exception leaves through the finally block with nothing else written.   *)
(***************************************************************************)
\* what extractVideoMetadata can do: return a record, or throw (ffprobe exited
\* non-zero or was killed by its timeout, non-JSON output, no video stream)
ProbeResults == {"ok", "throws"}
\* for original.mp4 the record may lack a duration > 0
DurationProbeResults == {"known", "unknown", "throws"}

\* duration.ts, getDurationSeconds after its await (lines 253-259)
DurationProbed(r, res) ==
  /\ phase = "up"
  /\ runs[r].pc = "durProbe"
  /\ LET s == Pack(r) IN
     Commit(CASE res = "throws"  -> Release(s, "threw")
              [] res = "unknown" -> Release(saveVideoMetadata(s, "unknown"), "threw")
              [] res = "known"   -> PlanAndLoop(saveVideoMetadata(s, "known"), srcDuration),
            r)
  /\ UNCHANGED <<srcDuration, phase>>

\* clipMetadataBackfill.ts lines 38-58, then on to the next entry
BackfillProbed(r, res) ==
  /\ phase = "up"
  /\ runs[r].pc = "bfProbe"
  /\ LET s == Pack(r) IN
     IF res = "throws"
       THEN Commit(Release(s, "threw"), r)
       ELSE \E s2 \in backfillClipMetadata(upsertClip(s, s.run.i)) : Commit(s2, r)
  /\ UNCHANGED <<srcDuration, phase>>

\* clipPipeline.ts lines 85-103: a complete file without a row
SkipProbed(r, res) ==
  /\ phase = "up"
  /\ runs[r].pc = "skipProbe"
  /\ LET s == Pack(r) IN
     Commit(IF res = "throws"
              THEN Release(s, "threw")
              ELSE SegmentLoop([upsertClip(s, s.run.i) EXCEPT !.run.i = @ + 1]),
            r)
  /\ UNCHANGED <<srcDuration, phase>>

\* logs.ts appendLog, for the entry of clipPipeline.ts line 144
appendLog(s, idx, code) == [s EXCEPT !.ffmpegLog = @ \cup {<<idx, code>>}]

\* faulty variant: the run goes on to the next segment
TranscodeFailed_Continues(s, code) ==
  SegmentLoop([appendLog(s, s.run.i, code) EXCEPT !.run.i = @ + 1])

\* faulty variant: the error is not put on the asset
TranscodeFailed_NoVideoError(s, code) ==
  LET s1 == appendLog(s, s.run.i, code)
      s2 == setClipJobState(s1, "Failed", <<"ffmpeg">>, Some(code))
  IN Release([s2 EXCEPT !.run.exitCode = code], "failed")

\* clipPipeline.ts lines 141-158
TranscodeFailed(s, code) ==
  LET s1 == appendLog(s, s.run.i, code)
      s2 == setClipJobState(s1, "Failed", <<"ffmpeg">>, Some(code))
      s3 == setVideoError(s2, Some("ffmpeg failed"))
  IN Release([s3 EXCEPT !.run.exitCode = code], "failed")

\* clipPipeline.ts line 139 onwards: ffmpeg has closed with exit code `code`.  With
\* code 0 the output file is complete; otherwise what it left at the output path
\* is `left`.
Transcoded(r, code, left) ==
  /\ phase = "up"
  /\ runs[r].pc = "transcode"
  /\ code = 0 => left = "big"
  /\ LET s  == Pack(r)
         s1 == [s EXCEPT !.files[s.run.i] = left]
     IN Commit(IF code # 0
                 THEN TranscodeFailed(s1, code)
                 ELSE [s1 EXCEPT !.run.pc = "clipProbe"],
               r)
  /\ UNCHANGED <<srcDuration, phase>>

\* clipPipeline.ts lines 161-184
ClipProbed(r, res) ==
  /\ phase = "up"
  /\ runs[r].pc = "clipProbe"
  /\ LET s == Pack(r) IN
     Commit(IF res = "throws"
              THEN Release(s, "threw")
              ELSE SegmentLoop(
                     [setClipJobState(upsertClip(s, s.run.i), "Generating", NULL, NULL)
                        EXCEPT !.run.i = @ + 1]),
            r)
  /\ UNCHANGED <<srcDuration, phase>>

(***************************************************************************)
(* clipMetadataBackfill.ts called by the clips:backfillMetadata handler.   *)
(* pc is "idle" when no scan is suspended, "probe" at the await of line    *)
(* 38; todo are the directory entries of line 17 still to visit, i the     *)
(* index being probed, scanned and upserted the counters of lines 19-20,   *)
(* which an ended scan keeps as the value it returned.  The other fields   *)
(* are for the properties: how the scan ended, and, while it is suspended, *)
(* the indices whose file was larger than 1024 bytes at the call (atStart) *)
(* and whether the table had no row then (zeroRows).                       *)
(***************************************************************************)
IdleScan == [pc |-> "idle", todo |-> {}, i |-> 0, scanned |-> 0, upserted |-> 0,
             outcome |-> "none", atStart |-> {}, zeroRows |-> FALSE]

\* line 61, or an exception leaving the function
EndScan(b, how) ==
  [IdleScan EXCEPT !.outcome = how, !.scanned = b.scanned, !.upserted = b.upserted,
                   !.zeroRows = b.zeroRows]

\* faulty variant: the rest of the scan is given up after the first row
ScanNext_StopsEarly(b, fs) ==
  IF b.upserted > 0 \/ ~(\E g \in b.todo : fs[g] = "big")
    THEN {EndScan(b, "returned")}
    ELSE {[b EXCEPT !.pc = "probe", !.i = f, !.todo = @ \ {f}, !.scanned = @ + 1] :
            f \in {g \in b.todo : fs[g] = "big"}}

\* lines 22-36: from the next directory entry, in the order readdirSync gave
\* (unspecified), to the next probe or to the return of line 61.  An entry that
\* is gone or is at most 1024 bytes when it is reached is passed over.
RECURSIVE ScanNext(_, _)
ScanNext(b, fs) ==
  IF b.todo = {}
    THEN {EndScan(b, "returned")}
    ELSE UNION {IF fs[f] = "big"
                  THEN {[b EXCEPT !.pc = "probe", !.i = f, !.todo = @ \ {f},
                                  !.scanned = @ + 1]}
                  ELSE ScanNext([b EXCEPT !.todo = @ \ {f}], fs) : f \in b.todo}

\* ipcVideos.ts, clips:backfillMetadata: the call of backfillClipMetadata, lines 15-36
Backfill ==
  /\ phase = "up"
  /\ bf.pc = "idle"
  /\ \E b \in ScanNext([IdleScan EXCEPT
                           !.todo = {idx \in Indices : files[idx] # "none"},
                           !.atStart = {idx \in Indices : files[idx] = "big"},
                           !.zeroRows = (clips = {})], files) :
       bf' = b
  /\ jobWrites' = <<>>
  /\ UNCHANGED <<scan, naming, probe, asset, clipRows, status, metadata, error_message, job, clips, files, ffmpegLog,
                 activeJobs, runs, srcDuration, phase, cmd, calls>>

\* lines 38-59: extractVideoMetadata has returned or thrown.  An exception is not
\* caught in backfillClipMetadata: it ends the scan and rejects the handler.
BackfillScanProbed(res) ==
  /\ phase = "up"
  /\ bf.pc = "probe"
  /\ IF res = "throws"
       THEN /\ bf' = EndScan(bf, "threw")
            /\ clips' = clips
            /\ clipRows' = clipRows
       ELSE /\ clips' = clips \cup {bf.i}
            /\ clipRows' = InsertOrUpdate(clipRows, bf.i)
            /\ \E b \in ScanNext([bf EXCEPT !.upserted = @ + 1], files) : bf' = b
  /\ jobWrites' = <<>>
  /\ UNCHANGED <<scan, naming, probe, asset, status, metadata, error_message, job, files, ffmpegLog,
                 activeJobs, runs, srcDuration, phase, cmd, calls>>

(***************************************************************************)
(* recovery.ts, run once by index.ts at start-up                           *)
(***************************************************************************)
\* faulty variant: a job is stale from the end of the window on
recoverStaleJobs_AtWindow(j) ==
  IF j # NULL /\ j[1].state = "Generating" /\ j[1].age >= STALE_MS
    THEN Some([state |-> "Failed", last_stderr |-> <<"Recovery">>,
               last_exit_code |-> NULL, age |-> 0])
    ELSE j

\* faulty variant: the sweep does not look at the state of the job
recoverStaleJobs_AnyState(j) ==
  IF j # NULL /\ j[1].age > STALE_MS
    THEN Some([state |-> "Failed", last_stderr |-> <<"Recovery">>,
               last_exit_code |-> NULL, age |-> 0])
    ELSE j

recoverStaleJobs(j) ==
  IF j # NULL /\ j[1].state = "Generating" /\ j[1].age > STALE_MS
    THEN Some([state |-> "Failed", last_stderr |-> <<"Recovery">>,
               last_exit_code |-> NULL, age |-> 0])
    ELSE j

\* the process dies: the in-flight set and every suspended invocation are lost, and
\* an ffmpeg that was running leaves whatever it had written
Crash ==
  /\ phase = "up"
  /\ phase' = "down"
  /\ activeJobs' = {}
  /\ runs' = [r \in Runs |->
                IF runs[r].pc = "idle" THEN runs[r]
                ELSE [runs[r] EXCEPT !.pc = "idle", !.outcome = "crashed",
                                     !.existingRows = {}, !.todo = {}]]
  /\ \E left \in FileStates :
       files' = [idx \in Indices |->
                   IF \E r \in Runs : runs[r].pc = "transcode" /\ runs[r].i = idx
                     THEN left ELSE files[idx]]
  /\ jobWrites' = <<>>
  /\ bf' = IF bf.pc = "idle" THEN bf ELSE EndScan(bf, "crashed")
  /\ UNCHANGED <<scan, naming, probe, asset, clipRows, status, metadata, error_message, job, clips, ffmpegLog, srcDuration,
                 cmd, calls>>

\* index.ts lines 79-89: initDb, recoverStaleJobs, registerVideoIpcHandlers
Startup ==
  /\ phase = "down"
  /\ phase' = "up"
  /\ job' = recoverStaleJobs(job)
  /\ jobWrites' = IF JobStateOf(job') = JobStateOf(job) THEN <<>>
                  ELSE << <<JobStateOf(job), JobStateOf(job')>> >>
  /\ UNCHANGED <<scan, naming, probe, asset, clipRows, status, metadata, error_message, clips, files, ffmpegLog,
                 activeJobs, runs, srcDuration, bf, cmd, calls>>

\* faulty variant: the sweep is repeated as time passes
Tick_Sweeps ==
  /\ job # NULL
  /\ job[1].age < MaxTime
  /\ job' = recoverStaleJobs(Some([job[1] EXCEPT !.age = @ + 1]))
  /\ jobWrites' = <<>>
  /\ UNCHANGED <<scan, naming, probe, asset, clipRows, status, metadata, error_message, clips, files, ffmpegLog,
                 activeJobs, runs, srcDuration, phase, bf, cmd, calls>>

\* a staleness window of wall-clock time passes
Tick ==
  /\ job # NULL
  /\ job[1].age < MaxTime
  /\ job' = Some([job[1] EXCEPT !.age = @ + 1])
  /\ jobWrites' = <<>>
  /\ UNCHANGED <<scan, naming, probe, asset, clipRows, status, metadata, error_message, clips, files, ffmpegLog,
                 activeJobs, runs, srcDuration, phase, bf, cmd, calls>>

(***************************************************************************)
(* utils/runCommand.ts.  One call is followed: the child process, from its *)
(* spawn over its exit to the close event that comes once its output       *)
(* streams have ended; the timer of lines 28-33; the flag killedByTimeout; *)
(* the text gathered from the streams; and the promise.                    *)
(***************************************************************************)
\* what the close event reports: a number, or null for a child ended by a signal
ChildCodes == {NULL, Some(0), Some(1), Some(TIMEOUT_EXIT)}

Chunks == {"a", "b"}

IdleCommand == [pc |-> "none", timer |-> "unset", killedByTimeout |-> FALSE,
                killed |-> FALSE, child |-> "none", code |-> NULL,
                stdout |-> <<>>, stderr |-> <<>>,
                promise |-> "none", result |-> NULL]

\* faulty variant: a null code is read as success
ExitCodeOf_NullIsZero(killedByTimeout, code) ==
  IF killedByTimeout THEN TIMEOUT_EXIT ELSE IF code = NULL THEN 0 ELSE code[1]

\* faulty variant: the flag set by the timer is not looked at
ExitCodeOf_IgnoresTimer(killedByTimeout, code) ==
  IF code = NULL THEN 1 ELSE code[1]

\* line 38
ExitCodeOf(killedByTimeout, code) ==
  IF killedByTimeout THEN TIMEOUT_EXIT ELSE IF code = NULL THEN 1 ELSE code[1]

\* lines 10-33: spawn, the listeners, and the timer when timeoutMs is given
RunCommand(withTimeout) ==
  /\ cmd.pc \in {"none", "settled"}
  /\ cmd' = [IdleCommand EXCEPT !.pc = "running", !.child = "alive",
                                !.promise = "pending",
                                !.timer = IF withTimeout THEN "armed" ELSE "unset"]
  /\ UNCHANGED <<scan, naming, probe, asset, clipRows, pipelineVars, metadata, srcDuration, calls>>

\* lines 24-25: a chunk arrives on stdout or on stderr
ChildData(stream, chunk) ==
  /\ cmd.pc = "running"
  /\ cmd.child \in {"alive", "exited"}
  /\ Len(cmd.stdout) + Len(cmd.stderr) < MaxChunks
  /\ cmd' = IF stream = "stdout" THEN [cmd EXCEPT !.stdout = Append(@, chunk)]
                                  ELSE [cmd EXCEPT !.stderr = Append(@, chunk)]
  /\ UNCHANGED <<scan, naming, probe, asset, clipRows, pipelineVars, metadata, srcDuration, calls>>

\* the child ends, by itself with a code, or by a signal (SIGKILL of line 31 or
\* any other) with a null code; a child that was sent SIGKILL may still have
\* ended by itself
ChildExits(code) ==
  /\ cmd.pc = "running"
  /\ cmd.child = "alive"
  /\ cmd' = [cmd EXCEPT !.child = "exited", !.code = code]
  /\ UNCHANGED <<scan, naming, probe, asset, clipRows, pipelineVars, metadata, srcDuration, calls>>

\* lines 29-32: the timer fires; kill has no effect on a child that has ended
TimerFires ==
  /\ cmd.timer = "armed"
  /\ cmd' = [cmd EXCEPT !.timer = "fired", !.killedByTimeout = TRUE,
                        !.killed = (cmd.child = "alive")]
  /\ UNCHANGED <<scan, naming, probe, asset, clipRows, pipelineVars, metadata, srcDuration, calls>>

\* lines 35-42: the close event
ChildCloses ==
  /\ cmd.pc = "running"
  /\ cmd.child = "exited"
  /\ cmd' = [cmd EXCEPT !.pc = "settled", !.child = "closed",
                        !.timer = IF @ = "armed" THEN "cleared" ELSE @,
                        !.promise = "resolved",
                        !.result = Some([exitCode |-> ExitCodeOf(cmd.killedByTimeout, cmd.code),
                                         stdout |-> cmd.stdout,
                                         stderr |-> cmd.stderr])]
  /\ UNCHANGED <<scan, naming, probe, asset, clipRows, pipelineVars, metadata, srcDuration, calls>>

NextRunCommand ==
  \/ \E withTimeout \in BOOLEAN : RunCommand(withTimeout)
  \/ \E stream \in {"stdout", "stderr"}, chunk \in Chunks : ChildData(stream, chunk)
  \/ \E code \in ChildCodes : ChildExits(code)
  \/ TimerFires
  \/ ChildCloses

(***************************************************************************)
(* duration.ts (in mediaProtocol.ts): getDurationSeconds called for the    *)
(* asset by any number of callers at once.  A record "known" in            *)
(* videos.metadata_json holds the duration a probe of original.mp4         *)
(* reported, which is srcDuration.  probed tells whether the call went to  *)
(* the prober, result is what it returned, threw whether it threw.         *)
(***************************************************************************)
Callers == 1..MaxCallers

IdleCall == [pc |-> "idle", probed |-> FALSE, result |-> NULL, threw |-> FALSE]

\* what the prober does for a file that has a duration: report it, or fail
CallProbeResults == {"known", "throws"}

\* faulty variant: the record of the fresh probe is not stored
StoreProbed_Forgets(m) == m

\* line 254: saveVideoMetadata with the record of the fresh probe
StoreProbed(m) == "known"

\* lines 238-253: the stored record is used if it has a duration > 0, otherwise
\* the call goes to the prober
GetDuration(c) ==
  /\ calls[c].pc = "idle"
  /\ calls' = [calls EXCEPT ![c] =
                 IF metadata = "known"
                   THEN [IdleCall EXCEPT !.result = Some(srcDuration)]
                   ELSE [IdleCall EXCEPT !.pc = "probe", !.probed = TRUE]]
  /\ UNCHANGED <<scan, naming, probe, asset, clipRows, pipelineVars, metadata, srcDuration, cmd>>

\* lines 253-259: extractVideoMetadata has returned or thrown
GetDurationProbed(c, res) ==
  /\ calls[c].pc = "probe"
  /\ IF res = "throws"
       THEN /\ calls' = [calls EXCEPT ![c].pc = "idle", ![c].threw = TRUE]
            /\ metadata' = metadata
       ELSE /\ calls' = [calls EXCEPT ![c].pc = "idle", ![c].result = Some(srcDuration)]
            /\ metadata' = StoreProbed(metadata)
  /\ UNCHANGED <<scan, naming, probe, asset, clipRows, pipelineVars, srcDuration, cmd>>

NextDuration ==
  \/ \E c \in Callers : GetDuration(c)
  \/ \E c \in Callers, res \in CallProbeResults : GetDurationProbed(c, res)

(***************************************************************************)
(* ffprobe.ts and videoMetadata.ts (in mediaProtocol.ts): metadata         *)
(* extraction.  A call starts ffprobe through runCommand and, when the     *)
(* child has closed, runs on to its return or its exception.               *)
(***************************************************************************)
\* a string as Number() reads it: a finite number, or NaN / Infinity
Num(v) == [fin |-> TRUE, v |-> v]
NotFinite == [fin |-> FALSE, v |-> 0]
Numbers == {Num(v) : v \in -1..MaxRate} \cup {NotFinite}

\* a frame-rate expression of a stream, as the sequence of its "/"-separated
\* parts: <<>> when the field is absent or empty, one part for a string without
\* a slash, two for "a/b", three for "a/b/c"
FrameRateExprs ==
  {<<>>} \cup {<<n>> : n \in Numbers} \cup {<<a, b>> : a \in Numbers, b \in Numbers}
         \cup {<<Num(1), Num(1), Num(1)>>}

\* a frame rate: the rational a/b as <<a, b>>
IsPositive(q) == q[1] * q[2] > 0

\* x ?? y
Coalesce(x, y) == IF x # NULL THEN x ELSE y

\* parseFraction (lines 75-88); Number("a/b/c") is NaN
parseFraction(fr) ==
  IF fr = <<>> THEN NULL
  ELSE IF Len(fr) # 2
    THEN LET asNum == IF Len(fr) = 1 THEN fr[1] ELSE NotFinite IN
         IF asNum.fin THEN Some(<<asNum.v, 1>>) ELSE NULL
  ELSE IF ~fr[1].fin \/ ~fr[2].fin \/ fr[2].v = 0 THEN NULL
  ELSE IF IsPositive(<<fr[1].v, fr[2].v>>) THEN Some(<<fr[1].v, fr[2].v>>) ELSE NULL

\* the streams ffprobe reports
VideoStreams ==
  [codec_type : {"video"}, default : {0, 1},
   r_frame_rate : FrameRateExprs, avg_frame_rate : FrameRateExprs]
AudioStreams ==
  [codec_type : {"audio"}, default : {0, 1},
   r_frame_rate : {<<Num(0), Num(0)>>}, avg_frame_rate : {<<Num(0), Num(0)>>}]
\* the streams that come first in a file of two streams
FirstStreams ==
  AudioStreams \cup
  {[codec_type |-> "video", default |-> 0,
    r_frame_rate |-> <<Num(1), Num(1)>>, avg_frame_rate |-> <<Num(1), Num(1)>>]}
StreamLists ==
  {<<>>} \cup {<<x>> : x \in VideoStreams \cup AudioStreams}
         \cup {<<x, y>> : x \in FirstStreams, y \in VideoStreams \cup AudioStreams}

\* what ffprobe has written to stdout when it closes: text that is not JSON,
\* the JSON value null, or a JSON object with these streams (none when the
\* object has no streams array)
Outputs ==
  {[kind |-> "text", streams |-> <<>>], [kind |-> "null", streams |-> <<>>]} \cup
  {[kind |-> "object", streams |-> l] : l \in StreamLists}

\* what a failed ffprobe can have written: nothing usable, or JSON all the same
\* (it prints an empty object for a file it cannot read)
FailedOutputs ==
  {[kind |-> "text", streams |-> <<>>], [kind |-> "null", streams |-> <<>>]} \cup
  {[kind |-> "object", streams |-> l] : l \in {<<>>} \cup {<<x>> : x \in FirstStreams}}

\* exit code and output of a closed ffprobe
Closings ==
  {<<0, out>> : out \in Outputs} \cup
  {<<exitCode, out>> : exitCode \in ExitCodes \ {0}, out \in FailedOutputs}

IdleProbe == [pc |-> "idle", exitCode |-> 0, out |-> [kind |-> "text", streams |-> <<>>],
              outcome |-> "none", error |-> "none", stream |-> NULL, fps |-> NULL]

\* runFfprobe after runCommand has resolved (part_003 lines 22-38)
runFfprobe(exitCode, out) ==
  IF exitCode # 0 THEN [threw |-> TRUE, error |-> "ffprobe failed", raw |-> out]
  ELSE IF out.kind = "text" THEN [threw |-> TRUE, error |-> "non-JSON output", raw |-> out]
  ELSE [threw |-> FALSE, error |-> "none", raw |-> out]

\* streams.find(...): the first video stream, or the first video stream with
\* disposition.default = 1, as a nullable
FindStream(l, defaultOnly) ==
  LET hits == {k \in 1..Len(l) :
                 l[k].codec_type = "video" /\ (defaultOnly => l[k].default = 1)}
  IN IF hits = {} THEN NULL ELSE Some(l[CHOOSE k \in hits : \A h \in hits : k <= h])

\* lines 166-171
PrimaryVideoStream(l) == Coalesce(FindStream(l, TRUE), FindStream(l, FALSE))

\* faulty variant: a file without video stream gets a record of defaults
extractVideoMetadata_Defaults(exitCode, out) ==
  LET res == runFfprobe(exitCode, out)
      videoStream == PrimaryVideoStream(res.raw.streams)
  IN
  IF res.threw THEN [outcome |-> "threw", error |-> res.error, stream |-> NULL, fps |-> NULL]
  ELSE IF res.raw.kind = "null"
    THEN [outcome |-> "threw", error |-> "TypeError", stream |-> NULL, fps |-> NULL]
  ELSE IF videoStream = NULL
    THEN [outcome |-> "returned", error |-> "none", stream |-> NULL, fps |-> NULL]
  ELSE [outcome |-> "returned", error |-> "none", stream |-> videoStream,
        fps |-> Coalesce(parseFraction(videoStream[1].r_frame_rate),
                         parseFraction(videoStream[1].avg_frame_rate))]

\* extractVideoMetadata after runFfprobe's await (lines 160-228), as far as the
\* frame rate; reading raw.streams of the JSON value null is a TypeError
extractVideoMetadata(exitCode, out) ==
  LET res == runFfprobe(exitCode, out)
      videoStream == PrimaryVideoStream(res.raw.streams)
  IN
  IF res.threw THEN [outcome |-> "threw", error |-> res.error, stream |-> NULL, fps |-> NULL]
  ELSE IF res.raw.kind = "null"
    THEN [outcome |-> "threw", error |-> "TypeError", stream |-> NULL, fps |-> NULL]
  ELSE IF videoStream = NULL
    THEN [outcome |-> "threw", error |-> "no video stream", stream |-> NULL, fps |-> NULL]
  ELSE [outcome |-> "returned", error |-> "none", stream |-> videoStream,
        fps |-> Coalesce(parseFraction(videoStream[1].r_frame_rate),
                         parseFraction(videoStream[1].avg_frame_rate))]

\* a call of extractVideoMetadata, to the await of ffprobe
ExtractVideoMetadata ==
  /\ probe.pc = "idle"
  /\ probe' = [IdleProbe EXCEPT !.pc = "ffprobe"]
  /\ UNCHANGED <<pipelineVars, metadata, srcDuration, cmd, calls, asset, clipRows, scan, naming>>

\* ffprobe has closed: the call returns a record or throws
FfprobeClosed(exitCode, out) ==
  /\ probe.pc = "ffprobe"
  /\ LET res == extractVideoMetadata(exitCode, out) IN
     probe' = [pc |-> "idle", exitCode |-> exitCode, out |-> out,
               outcome |-> res.outcome, error |-> res.error,
               stream |-> res.stream, fps |-> res.fps]
  /\ UNCHANGED <<pipelineVars, metadata, srcDuration, cmd, calls, asset, clipRows, scan, naming>>

NextExtract ==
  \/ ExtractVideoMetadata
  \/ \E c \in Closings : FfprobeClosed(c[1], c[2])

(***************************************************************************)
(* ipcVideos.ts, videos:delete, for the one asset.  The handler has no     *)
(* await: the directory removal and the row deletion are one piece.  The   *)
(* directory holds the copied original and the clip files; rmSync either   *)
(* removes all of it or throws (a file is busy or protected) after having  *)
(* removed some of it.  Deleting the videos row deletes the clips and      *)
(* clip_jobs rows with it (ON DELETE CASCADE, foreign keys enforced); the  *)
(* columns metadata and error_message go with the row, and status, which   *)
(* has no null value, is then no one's to read.                            *)
(* asset.rejected records that a call of the handler has been rejected;    *)
(* one failing removal is followed per behaviour.                          *)
(***************************************************************************)
\* what the handler works on
PackAsset == [files |-> files, clips |-> clips, clipRows |-> clipRows,
              job |-> job, asset |-> asset,
              metadata |-> metadata, error_message |-> error_message, threw |-> FALSE]

\* fs.rmSync(videoDir, {recursive, force}); gone is what a failing removal took
rmSync(d, ok, gone) ==
  IF ok
    THEN [d EXCEPT !.files = [idx \in Indices |-> "none"], !.asset.original = FALSE]
    ELSE [d EXCEPT !.files = [idx \in Indices |-> IF idx \in gone.clips THEN "none" ELSE @[idx]],
                   !.asset.original = @ /\ ~gone.original,
                   !.asset.rejected = TRUE,
                   !.threw = TRUE]

\* deleteVideo, with the cascade of the schema
deleteVideo(d) ==
  [d EXCEPT !.asset.row = FALSE, !.metadata = "none", !.error_message = NULL,
            !.clips = {}, !.clipRows = [idx \in Indices |-> 0], !.job = NULL]

\* faulty variant: the row is deleted before the directory is removed
videosDelete_RowFirst(d, ok, gone) == rmSync(deleteVideo(d), ok, gone)

\* the body of the handler's loop (part_004 lines 128-134)
videosDelete(d, ok, gone) ==
  LET d1 == rmSync(d, ok, gone) IN
  IF d1.threw THEN d1 ELSE deleteVideo(d1)

\* what a failing removal can have taken: it has stopped at an entry it could
\* not remove, here the copied original (the file a transcoder or a player
\* holds open), after any of the clip files
PartlyGone == {g \in [clips : SUBSET Indices, original : {FALSE}] : asset.original}

DeleteVideo(ok, gone) ==
  /\ phase = "up"
  /\ asset.row
  /\ ok \/ ~asset.rejected
  /\ LET d == videosDelete(PackAsset, ok, gone) IN
     /\ files' = d.files
     /\ clips' = d.clips
     /\ clipRows' = d.clipRows
     /\ job' = d.job
     /\ asset' = d.asset
     /\ metadata' = d.metadata
     /\ error_message' = d.error_message
  /\ jobWrites' = <<>>
  /\ UNCHANGED <<scan, naming, status, ffmpegLog, activeJobs, runs,
                 srcDuration, phase, bf, cmd, calls, probe>>

\* A run that was suspended when its asset was deleted resumes.  Its clip
\* directory is gone, so a transcoder or probe that closes leaves no file
\* behind.  After ffmpeg exit 0 the run awaits the probe of the clip (line 161);
\* after another exit code it appends to the log and setClipJobState fails on
\* the foreign key (lines 145-147).  After a probe there is either its
\* exception, or the failing upsertClip, or (duration probe) the "Video not
\* found" of getVideo on line 62.  Every exception leaves through finally.
\* faulty variant: foreign keys are not enforced and the write goes through
Enforced_Off(s, written) == written

\* PRAGMA foreign_keys = ON with clips.video_id and clip_jobs.video_id
\* REFERENCES videos: a write of such a row for a video_id that has no videos
\* row throws and leaves the tables as they were (s), instead of `written`
Enforced(s, written) == s

Orphaned(r, code) ==
  /\ phase = "up"
  /\ ~asset.row
  /\ runs[r].pc # "idle"
  /\ LET s == Pack(r) IN
     IF s.run.pc = "transcode"
       THEN IF code = 0
              THEN Commit([s EXCEPT !.run.pc = "clipProbe"], r)
              ELSE LET s1 == appendLog(s, s.run.i, code) IN
                   Commit(Release(Enforced(s1, setClipJobState(s1, "Failed", <<"ffmpeg">>,
                                                               Some(code))),
                                  "threw"), r)
       ELSE code = 0 /\ Commit(Release(s, "threw"), r)
  /\ UNCHANGED <<srcDuration, phase>>

\* one process that does not crash, with the asset deleted at any moment
NextDelete ==
  \/ asset.row /\ \E st \in VideoStatus : SetStatus(st)
  \/ asset.row /\ \E r \in Runs, res \in DurationProbeResults : DurationProbed(r, res)
  \/ asset.row /\ \E r \in Runs, res \in ProbeResults : BackfillProbed(r, res)
  \/ asset.row /\ \E r \in Runs, res \in ProbeResults : SkipProbed(r, res)
  \/ asset.row /\ \E r \in Runs, code \in ExitCodes, left \in FileStates : Transcoded(r, code, left)
  \/ asset.row /\ \E r \in Runs, res \in ProbeResults : ClipProbed(r, res)
  \/ DeleteVideo(TRUE, [clips |-> {}, original |-> FALSE])
  \/ \E gone \in PartlyGone : DeleteVideo(FALSE, gone)
  \/ \E r \in Runs, code \in ExitCodes : Orphaned(r, code)

(***************************************************************************)
(* paths.ts clipPath and clipMetadataBackfill.ts parseClipIndex: the file  *)
(* name of a clip.  A name is kept as the text before the number field,    *)
(* the characters of the number field, and the text after it.              *)
(***************************************************************************)
DigitChars == <<"0", "1", "2", "3", "4", "5", "6", "7", "8", "9">>
IsDigit(c) == \E d \in 1..Len(DigitChars) : DigitChars[d] = c
DigitValue(c) == (CHOOSE d \in 1..Len(DigitChars) : DigitChars[d] = c) - 1

\* String(n) for a non-negative integer, as its characters
RECURSIVE ToDigits(_)
ToDigits(n) ==
  IF n < Len(DigitChars) THEN <<DigitChars[n + 1]>>
  ELSE Append(ToDigits(n \div Len(DigitChars)), DigitChars[(n % Len(DigitChars)) + 1])

\* s.padStart(width, "0")
RECURSIVE PadStart(_, _)
PadStart(s, width) == IF Len(s) >= width THEN s ELSE PadStart(<<"0">> \o s, width)

\* Number(s) for a string of digits
RECURSIVE ToNumber(_)
ToNumber(s) ==
  IF s = <<>> THEN 0
  ELSE ToNumber(SubSeq(s, 1, Len(s) - 1)) * Len(DigitChars) + DigitValue(s[Len(s)])

\* width of the number field in a clip's file name
NAME_DIGITS == 3

\* the base name of clipPath(video_id, clipIndex) (part_006 lines 141-144)
clipPath(clipIndex) ==
  [stem |-> "clip_", digits |-> PadStart(ToDigits(clipIndex), NAME_DIGITS), ext |-> ".mp4"]

\* faulty variant: a number field of any length is accepted
parseClipIndex_AnyLength(filename) ==
  IF /\ filename.stem = "clip_"
     /\ Len(filename.digits) > 0
     /\ \A k \in 1..Len(filename.digits) : IsDigit(filename.digits[k])
     /\ filename.ext = ".mp4"
    THEN Some(ToNumber(filename.digits))
    ELSE NULL

\* parseClipIndex (lines 8-13): /^clip_(\d{3})\.mp4$/ and Number of the group
parseClipIndex(filename) ==
  IF /\ filename.stem = "clip_"
     /\ Len(filename.digits) = NAME_DIGITS
     /\ \A k \in 1..Len(filename.digits) : IsDigit(filename.digits[k])
     /\ filename.ext = ".mp4"
    THEN Some(ToNumber(filename.digits))
    ELSE NULL

NoName == [index |-> 0, name |-> [stem |-> "", digits |-> <<>>, ext |-> ""],
           parsed |-> NULL, written |-> FALSE]

\* the segmenter's loop gets to its next index i (from 0, then i++) and writes
\* its output to clipPath(i); a scan of the directory then parses that name
NameClip ==
  LET i == IF naming.written THEN naming.index + 1 ELSE 0 IN
  /\ i <= MaxIndex
  /\ naming' = [index |-> i, name |-> clipPath(i),
                parsed |-> parseClipIndex(clipPath(i)), written |-> TRUE]
  /\ UNCHANGED <<pipelineVars, metadata, srcDuration, cmd, calls, probe, asset,
                 clipRows, scan>>

NextNames == NameClip

(***************************************************************************)
(* clipMetadataBackfill.ts backfillClipMetadata on the entries of a clip   *)
(* directory: names of any shape, regular files and directories, files     *)
(* that vanish before they are examined.  The directory does not change    *)
(* during the scan (scans beside a running segmenter are in SpecBackfill). *)
(***************************************************************************)
\* a file of at most this many bytes is not a clip
MIN_BYTES == 1024

Zeros == <<"0", "0", "0">>

\* names found in a clip directory
DirNames ==
  { clipPath(0), clipPath(1),
    [stem |-> "clip_", digits |-> <<"0", "0", "0", "1">>, ext |-> ".mp4"],
    [stem |-> "clip_", digits |-> <<"0", "a", "1">>, ext |-> ".mp4"],
    [stem |-> "clip_", digits |-> Zeros, ext |-> ".mp4.part"],
    [stem |-> "xclip_", digits |-> Zeros, ext |-> ".mp4"] }

\* what fs.statSync gives for an entry; NULL when it throws
StatResults ==
  { Some([isFile |-> TRUE, size |-> MIN_BYTES]),
    Some([isFile |-> TRUE, size |-> MIN_BYTES + 1]),
    Some([isFile |-> FALSE, size |-> 4 * MIN_BYTES]),
    NULL }

\* listings of at most MaxEntries entries
Directories ==
  UNION { [names -> StatResults] :
          names \in {n \in SUBSET DirNames : Cardinality(n) <= MaxEntries} }

IdleDirScan ==
  [pc |-> "idle", missing |-> FALSE, dir |-> <<>>, todo |-> {}, cur |-> NoName.name,
   scanned |-> 0, upserted |-> 0, counted |-> {}, rows |-> {}, outcome |-> "none"]

\* faulty variant: the size of the entry is not looked at
Examined_AnySize(dir, f) ==
  /\ parseClipIndex(f) # NULL
  /\ dir[f] # NULL
  /\ dir[f][1].isFile

\* lines 23-34: the entry is not passed over by either `continue`
Examined(dir, f) ==
  /\ parseClipIndex(f) # NULL
  /\ dir[f] # NULL
  /\ dir[f][1].isFile /\ dir[f][1].size > MIN_BYTES

\* lines 22-38 and 59-61: the loop goes on over the entries left, up to the
\* next one it counts and probes, or to the end and the return
ScanDir(sc) ==
  LET rest == {f \in sc.todo : Examined(sc.dir, f)}
  IN  IF rest = {}
        THEN scan' = [sc EXCEPT !.pc = "settled", !.todo = {}, !.cur = NoName.name,
                                !.outcome = "returned"]
        ELSE \E f \in rest :
               scan' = [sc EXCEPT !.pc = "probe", !.todo = rest \ {f}, !.cur = f,
                                  !.scanned = @ + 1, !.counted = @ \cup {f}]

\* lines 15-20: the call; getClipsDir creates a missing directory, which is
\* then listed as empty
BackfillDir(exists, d) ==
  /\ scan.pc = "idle"
  /\ exists \/ DOMAIN d = {}
  /\ ScanDir([IdleDirScan EXCEPT !.missing = ~exists, !.dir = d, !.todo = DOMAIN d])
  /\ UNCHANGED <<pipelineVars, metadata, srcDuration, cmd, calls, probe, asset,
                 clipRows, naming>>

\* lines 38-59: extractVideoMetadata returns, the row is written and counted
DirScanProbed ==
  /\ scan.pc = "probe"
  /\ ScanDir([scan EXCEPT !.upserted = @ + 1,
                          !.rows = @ \cup {parseClipIndex(scan.cur)[1]}])
  /\ UNCHANGED <<pipelineVars, metadata, srcDuration, cmd, calls, probe, asset,
                 clipRows, naming>>

\* line 38: extractVideoMetadata throws and the call is rejected
DirScanProbeThrew ==
  /\ scan.pc = "probe"
  /\ scan' = [scan EXCEPT !.pc = "settled", !.todo = {}, !.cur = NoName.name,
                          !.outcome = "threw"]
  /\ UNCHANGED <<pipelineVars, metadata, srcDuration, cmd, calls, probe, asset,
                 clipRows, naming>>

\* the caller has taken the result of the call; the next call starts afresh
DirScanSettled ==
  /\ scan.pc = "settled"
  /\ scan' = IdleDirScan
  /\ UNCHANGED <<pipelineVars, metadata, srcDuration, cmd, calls, probe, asset,
                 clipRows, naming>>

NextScan ==
  \/ \E d \in Directories : BackfillDir(TRUE, d)
  \/ BackfillDir(FALSE, <<>>)
  \/ DirScanProbed
  \/ DirScanProbeThrew
  \/ DirScanSettled

\* the asset has been imported (status Pending); its import-time metadata
\* extraction has stored a record or has not
Init ==
  /\ status = "Pending"
  /\ metadata \in {"none", "known"}
  /\ error_message = NULL
  /\ job = NULL
  /\ clips = {}
  /\ files = [idx \in Indices |-> "none"]
  /\ ffmpegLog = {}
  /\ activeJobs = {}
  /\ runs = [r \in Runs |-> IdleRun]
  /\ srcDuration \in Durations
  /\ phase = "up"
  /\ jobWrites = <<>>
  /\ bf = IdleScan
  /\ cmd = IdleCommand
  /\ calls = [c \in Callers |-> IdleCall]
  /\ probe = IdleProbe
  /\ asset = [row |-> TRUE, original |-> TRUE, rejected |-> FALSE]
  /\ clipRows = [idx \in Indices |-> 0]
  /\ scan = IdleDirScan
  /\ naming = NoName

Next ==
  \/ \E st \in VideoStatus : SetStatus(st)
  \/ Generate
  \/ \E r \in Runs, res \in DurationProbeResults : DurationProbed(r, res)
  \/ \E r \in Runs, res \in ProbeResults : BackfillProbed(r, res)
  \/ \E r \in Runs, res \in ProbeResults : SkipProbed(r, res)
  \/ \E r \in Runs, code \in ExitCodes, left \in FileStates : Transcoded(r, code, left)
  \/ \E r \in Runs, res \in ProbeResults : ClipProbed(r, res)
  \/ Crash
  \/ Startup
  \/ Tick

Spec == Init /\ [][Next]_vars

\* the behaviours of one process that does not crash
NextNoCrash ==
  \/ \E st \in VideoStatus : SetStatus(st)
  \/ Generate
  \/ \E r \in Runs, res \in DurationProbeResults : DurationProbed(r, res)
  \/ \E r \in Runs, res \in ProbeResults : BackfillProbed(r, res)
  \/ \E r \in Runs, res \in ProbeResults : SkipProbed(r, res)
  \/ \E r \in Runs, code \in ExitCodes, left \in FileStates : Transcoded(r, code, left)
  \/ \E r \in Runs, res \in ProbeResults : ClipProbed(r, res)
  \/ Tick

SpecNoCrash == Init /\ [][NextNoCrash]_vars

\* the external command that run r awaits closes (by its exit, or killed by the
\* timer of runCommand) and the run goes on
CommandCloses(r) ==
  \/ \E res \in DurationProbeResults : DurationProbed(r, res)
  \/ \E res \in ProbeResults : BackfillProbed(r, res)
  \/ \E res \in ProbeResults : SkipProbed(r, res)
  \/ \E code \in ExitCodes, left \in FileStates : Transcoded(r, code, left)
  \/ \E res \in ProbeResults : ClipProbed(r, res)

NextLive ==
  \/ \E st \in VideoStatus : SetStatus(st)
  \/ \E r \in Runs : CommandCloses(r)

\* one process that does not exit, in which every external command a run
\* awaits closes in the end: ffprobe within its 60 s and ffmpeg within its
\* 10 min, or killed then
SpecLive == Init /\ [][NextLive]_vars /\ \A r \in Runs : WF_vars(CommandCloses(r))

\* one process that does not crash, with the backfill handler in use as well;
\* wall-clock time, which only the recovery sweep looks at, stands still, and runs
\* are triggered by videos:setStatus (on an Approved asset clips:generate does
\* what setting the status to Approved again does)
NextBackfill ==
  \/ \E st \in VideoStatus : SetStatus(st)
  \/ \E r \in Runs, res \in DurationProbeResults : DurationProbed(r, res)
  \/ \E r \in Runs, res \in ProbeResults : BackfillProbed(r, res)
  \/ \E r \in Runs, res \in ProbeResults : SkipProbed(r, res)
  \/ \E r \in Runs, code \in ExitCodes, left \in FileStates : Transcoded(r, code, left)
  \/ \E r \in Runs, res \in ProbeResults : ClipProbed(r, res)
  \/ Backfill
  \/ \E res \in ProbeResults : BackfillScanProbed(res)

SpecBackfill == Init /\ [][NextBackfill]_vars

\* calls of runCommand, one after the other
SpecRunCommand == Init /\ [][NextRunCommand]_vars

\* calls of getDurationSeconds for the asset
SpecDuration == Init /\ [][NextDuration]_vars

\* the pipeline and videos:delete
SpecDelete == Init /\ [][NextDelete]_vars

\* scans of a clip directory, one after the other
SpecScan == Init /\ [][NextScan]_vars

\* file names of clips
SpecNames == Init /\ [][NextNames]_vars

\* calls of extractVideoMetadata, one after the other
SpecExtract == Init /\ [][NextExtract]_vars

(***************************************************************************)
(* Properties                                                              *)
(***************************************************************************)
ActiveRuns == {r \in Runs : runs[r].pc # "idle"}
Transcoding == {r \in Runs : runs[r].pc = "transcode"}

\* C1: at most one invocation of generateClipsForVideo for the asset is past the
\* entry guard and not yet released, it holds the asset's id in the in-flight set,
\* and so at most one transcoder is in flight for the asset.
C1_OneRunPerAsset ==
  /\ Cardinality(ActiveRuns) <= 1
  /\ Cardinality(Transcoding) <= 1
  /\ ActiveRuns # {} => VideoId \in activeJobs

\* a transcode is in flight and another invocation was turned away by the guard
C1_Witness ==
  \E r, q \in Runs : runs[r].pc = "transcode" /\ runs[q].outcome = "skipped"

AllowedJobChanges ==
  {<<a, "Generating">> : a \in {"NoRecord", "Done", "Failed"}}
    \cup {<<"Generating", "Done">>, <<"Generating", "Failed">>}

\* C2: every change of the asset's JobState value goes from no record, Done or
\* Failed to Generating, or from Generating to Done or to Failed.
C2_JobStateChanges ==
  \A k \in 1..Len(jobWrites) : jobWrites[k] \in AllowedJobChanges

\* a retrigger on a Done job went through Generating and reached Done again
C2_Witness ==
  jobWrites = << <<"Done", "Generating">>, <<"Generating", "Done">> >>

\* C3: while the process has not crashed, the JobState is Generating exactly when
\* a run for the asset is in progress (past the guards, id in the in-flight set);
\* so it is not Generating once the run has ended, by returning or by throwing.
C3_GeneratingIffRunning ==
  (JobStateOf(job) = "Generating") <=> (ActiveRuns # {} /\ VideoId \in activeJobs)

\* C4: when duration resolution or metadata extraction has failed in a run, the
\* run has persisted the failure by its end: the JobState is Failed or the
\* asset's error_message is set.
C4_ProbeFailurePersisted ==
  \A r \in Runs :
    runs[r].pc = "idle" /\ runs[r].outcome = "threw" =>
      JobStateOf(job) = "Failed" \/ error_message # NULL

\* C5: when the transcoder for segment i closes with a non-zero exit code (124
\* included), the run writes JobState Failed with that code and an error text,
\* puts a message on the asset, appends the output to the log and ends without
\* starting another segment; the other clip files and all clip rows stay as they were.
C5_TranscodeFailure ==
  [][\A r \in Runs :
       (runs[r].pc = "transcode" /\ phase' = "up" /\ runs'[r].pc # "clipProbe"
          /\ runs'[r] # runs[r]) =>
         LET idx == runs[r].i
             code == runs'[r].exitCode
         IN /\ code \in ExitCodes \ {0}
            /\ job' # NULL
            /\ job'[1].state = "Failed"
            /\ job'[1].last_exit_code = Some(code)
            /\ job'[1].last_stderr # NULL
            /\ error_message' # NULL
            /\ <<idx, code>> \in ffmpegLog'
            /\ runs'[r].pc = "idle"
            /\ runs'[r].transcoded = runs[r].transcoded
            /\ clips' = clips
            /\ \A j \in Indices \ {idx} : files'[j] = files[j]
    ]_vars

\* the transcoder of segment 1 was killed by its timeout; segment 0 is in place
C5_Witness ==
  \E r \in Runs :
    /\ runs[r].outcome = "failed" /\ runs[r].i = 1 /\ runs[r].exitCode = TIMEOUT_EXIT
    /\ files[0] = "big" /\ 0 \in clips

\* the one step of a run that passes no segment-boundary check on its way to the
\* end of the loop: the metadata extraction of the last segment has returned
AfterLastSegment(r) ==
  runs[r].pc \in {"skipProbe", "clipProbe"} /\ runs[r].i + 1 >= runs[r].total

\* C6 as stated: a run that ends while the status is not Approved never ends
\* with JobState Done, whichever segment was in progress at the change.
C6_NeverDoneAfterStatusChange ==
  [][\A r \in Runs :
       (runs[r].pc # "idle" /\ runs'[r].pc = "idle" /\ phase' = "up"
          /\ status' # "Approved") => JobStateOf(job') # "Done"
    ]_vars

\* C6 as amended: when a run reaches a segment-boundary check while the status
\* is not Approved, it writes JobState Failed with a message naming the status
\* and ends, so it starts no further segment and does not end Done; only a run
\* whose last segment was already under way ends Done with the status changed.
C6_StoppedAtBoundary ==
  [][\A r \in Runs :
       (runs[r].pc # "idle" /\ runs'[r] # runs[r] /\ phase' = "up"
          /\ status' # "Approved") =>
         /\ runs'[r].pc \notin {"skipProbe", "transcode"}
         /\ JobStateOf(job') = "Done" => AfterLastSegment(r)
         /\ (~AfterLastSegment(r)
               /\ runs'[r].pc \notin {"bfProbe", "durProbe", "clipProbe"}
               /\ runs'[r].outcome \notin {"threw", "failed"}) =>
              /\ runs'[r].pc = "idle"
              /\ job' # NULL
              /\ job'[1].state = "Failed"
              /\ job'[1].last_stderr = <<"Stopped", status'>>
    ]_vars

\* the status changed during segment 0 and the check before segment 1 stopped the
\* run, with segment 0 kept
C6_Witness ==
  \E r \in Runs :
    /\ runs[r].outcome = "stopped" /\ runs[r].i = 1 /\ runs[r].transcoded = {0}
    /\ files[0] = "big" /\ JobStateOf(job) = "Failed"

\* C7: a run started on a job that a run left Done (asset, duration and clip
\* files as that run left them) ends at once with JobState Done, having started
\* no transcoder, deleted no file and written no clip row.
C7_SecondRunIdempotent ==
  \A r \in Runs :
    runs[r].fromDone /\ runs[r].outcome # "notApproved" =>
      /\ runs[r].pc = "idle"
      /\ runs[r].outcome = "done"
      /\ JobStateOf(job) = "Done"
      /\ runs[r].transcoded = {}
      /\ runs[r].deleted = {}
      /\ runs[r].upserted = {}

\* a second run passed over both clips of a two-clip asset
C7_Witness ==
  \E r \in Runs :
    runs[r].fromDone /\ runs[r].outcome = "done" /\ runs[r].skipped = {0, 1}

FilesPresent == {idx \in Indices : files[idx] # "none"}

\* the segments of a duration that are longer than the negligible length
ExpectedClips(d) == Cardinality({k \in 0..MaxClips : d - k * CLIP_LEN > LEN_EPSILON})

\* C8 as stated: a run on an asset without clips that ends Done leaves exactly
\* N = max(1, ceil(D/120)) clip files and clip rows, indices 0..N-1.
C8_DoneHasCeilClips ==
  \A r \in Runs :
    runs[r].outcome = "done" /\ runs[r].fromEmpty =>
      LET N == Max(1, Ceil(srcDuration, CLIP_LEN)) IN
      clips = 0..(N - 1) /\ FilesPresent = 0..(N - 1)

\* C8 as amended: such a run leaves exactly M complete clip files and M clip
\* rows, indices 0..M-1, where M = N if the last segment D - (N-1)*120 is longer
\* than 0.01 s and M = N - 1 otherwise (zero clips when D <= 0.01 s).
C8_DoneHasPlannedClips ==
  \A r \in Runs :
    runs[r].outcome = "done" /\ runs[r].fromEmpty =>
      LET N == Max(1, Ceil(srcDuration, CLIP_LEN))
          M == ExpectedClips(srcDuration)
      IN /\ clips = 0..(M - 1)
         /\ FilesPresent = 0..(M - 1)
         /\ \A idx \in FilesPresent : files[idx] = "big"
         /\ M = (IF srcDuration - (N - 1) * CLIP_LEN > LEN_EPSILON THEN N ELSE N - 1)

\* a Done run on an asset without clips has left two clips
C8_Witness ==
  \E r \in Runs :
    /\ runs[r].outcome = "done" /\ runs[r].fromEmpty
    /\ clips = {0, 1} /\ runs[r].transcoded = {0, 1}

RECURSIVE SumLen(_)
SumLen(p) == IF p = <<>> THEN 0 ELSE p[1][2] + SumLen(Tail(p))

\* segment k (from 1) of plan p starts at (k-1)*L and has the length left, at most L
PlanEntryOk(p, k) ==
  /\ p[k][1] = (k - 1) * CLIP_LEN
  /\ p[k][2] = (IF srcDuration - (k - 1) * CLIP_LEN >= CLIP_LEN
                 THEN CLIP_LEN ELSE srcDuration - (k - 1) * CLIP_LEN)
  /\ p[k][2] > 0
  /\ p[k][2] <= CLIP_LEN

\* C9 as stated: the segments a run that goes through the whole loop cuts are
\* N = ceil(D/L), segment i starting at i*L, each of length L but the last of
\* length D - (N-1)*L in (0, L], and the lengths add up to D.
C9_PlanCoversDuration ==
  \A r \in Runs :
    runs[r].outcome = "done" =>
      LET p == runs[r].plan
          N == Ceil(srcDuration, CLIP_LEN)
      IN /\ Len(p) = N
         /\ \A k \in 1..N : PlanEntryOk(p, k)
         /\ SumLen(p) = srcDuration

\* C9 as amended: every segment a run gets to starts at i*L and has length
\* min(L, D - i*L); a run that goes through the whole loop cuts N = ceil(D/L)
\* segments adding up to D, unless the last length D - (N-1)*L is at most 0.01 s:
\* then it cuts the N - 1 full segments only, adding up to (N-1)*L.
C9_PlanUpToNegligible ==
  \A r \in Runs :
    LET p == runs[r].plan
        N == Ceil(srcDuration, CLIP_LEN)
        last == srcDuration - (N - 1) * CLIP_LEN
    IN /\ \A k \in 1..Len(p) : PlanEntryOk(p, k)
       /\ runs[r].outcome = "done" =>
            /\ last > 0 /\ last <= CLIP_LEN
            /\ Len(p) = (IF last > LEN_EPSILON THEN N ELSE N - 1)
            /\ SumLen(p) = (IF last > LEN_EPSILON THEN srcDuration ELSE (N - 1) * CLIP_LEN)

\* a run went through a plan of a full segment and a short last one
C9_Witness ==
  \E r \in Runs :
    /\ runs[r].outcome = "done" /\ Len(runs[r].plan) = 2
    /\ runs[r].plan[2] = <<CLIP_LEN, LEN_EPSILON + 1>>

BigFiles == {idx \in Indices : files[idx] = "big"}

\* C11: a backfill that completes has given a row to every clip file that was
\* larger than 1024 bytes at its call, keyed by the file's index, and, called by
\* the handler, returns scanned = upserted; when no such file appeared meanwhile,
\* the rows are exactly those files' and both counts are their number.  As the
\* segmenter's pre-pass, which starts from zero rows, it leaves exactly one row
\* for each such file.
C11_BackfillCompletes ==
  [][/\ (bf' # bf /\ bf'.pc = "idle" /\ bf'.outcome = "returned") =>
          /\ bf'.scanned = bf'.upserted
          /\ bf.atStart \subseteq clips'
          /\ BigFiles' = bf.atStart =>
               /\ clips' = bf.atStart
               /\ bf'.scanned = Cardinality(bf.atStart)
     /\ \A r \in Runs :
          (runs[r].pc = "bfProbe" /\ runs'[r].pc \notin {"bfProbe", "idle"}) =>
             clips' = BigFiles
    ]_vars

\* a scan called with one complete clip file and no row has returned 1 and 1
C11_Witness ==
  /\ bf.outcome = "returned" /\ bf.zeroRows
  /\ bf.scanned = 1 /\ bf.upserted = 1
  /\ clips = {0} /\ BigFiles = {0}

\* C12: a scan is not ended by one bad file: when the metadata extraction of a
\* file has ended and a complete file is still to be visited, the scan goes on to
\* probe it.
C12_ScanSurvivesBadFile ==
  [][(bf.pc = "probe" /\ bf' # bf /\ \E g \in bf.todo : files[g] = "big") =>
        bf'.pc = "probe" /\ bf'.outcome # "threw"
    ]_vars

\* C13: the recovery sweep changes the job exactly when its state is Generating
\* and its updated_at is more than the staleness window old: then to Failed with
\* the recovery message and a null exit code; any other job it leaves as it is.
C13_RecoverySweep ==
  [][(phase = "down" /\ phase' = "up") =>
        IF job # NULL /\ job[1].state = "Generating" /\ job[1].age > STALE_MS
          THEN /\ job'[1].state = "Failed"
               /\ job'[1].last_stderr = <<"Recovery">>
               /\ job'[1].last_exit_code = NULL
          ELSE job' = job
    ]_vars

\* the process came up on a job that was Generating exactly one window ago, and
\* left it Generating
C13_Witness ==
  /\ phase = "up"
  /\ job # NULL /\ job[1].state = "Generating" /\ job[1].age = STALE_MS
  /\ \E r \in Runs : runs[r].outcome = "crashed"

\* C14: when a run has ended with JobState Failed, the asset's error_message is
\* set.
C14_FailedRunHasError ==
  [][\A r \in Runs :
       (runs[r].pc # "idle" /\ runs'[r].pc = "idle" /\ phase' = "up"
          /\ JobStateOf(job') = "Failed") => error_message' # NULL
    ]_vars

IsPrefix(S) == \A idx \in S : \A below \in 0..(idx - 1) : below \in S

\* C15: whenever no backfill is in progress (the handler's scan or a run's
\* pre-pass), the clip_index values of the asset's rows are 0..k-1 for some k >= 0.
C15_RowsArePrefix ==
  (bf.pc = "idle" /\ \A r \in Runs : runs[r].pc # "bfProbe") => IsPrefix(clips)

\* a run lost the row of clip 1 to a probe failure and a scan of the handler
\* restored both rows
C15_Witness ==
  /\ clips = {0, 1}
  /\ bf.outcome = "returned" /\ bf.upserted = 2
  /\ \E r \in Runs : runs[r].outcome = "threw"

\* C16: when no invocation is between its entry and its end, the asset id is not
\* in the in-flight set: every invocation that added it has removed it, however
\* it ended.
C16_GuardReleased ==
  ActiveRuns = {} => VideoId \notin activeJobs

\* a run has ended by an exception from a probe, and the set is empty
C16_Witness ==
  /\ activeJobs = {}
  /\ phase = "up"
  /\ \E r \in Runs : runs[r].outcome = "threw"

\* C17: an invocation made while the id is in the in-flight set ends at once and
\* changes nothing: no JobState, clip row, error_message, metadata, file or log
\* entry is written, no other invocation is touched, and the id stays in the set.
C17_RefusedInvocationNoOp ==
  [][\A q \in Runs :
       (VideoId \in activeJobs /\ phase = "up" /\ phase' = "up"
          /\ runs[q].pc = "idle" /\ runs'[q] # runs[q]) =>
         /\ runs'[q].pc = "idle"
         /\ runs'[q].outcome = "skipped"
         /\ runs'[q].transcoded = {} /\ runs'[q].upserted = {} /\ runs'[q].deleted = {}
         /\ job' = job
         /\ jobWrites' = <<>>
         /\ clips' = clips
         /\ error_message' = error_message
         /\ metadata' = metadata
         /\ files' = files
         /\ ffmpegLog' = ffmpegLog
         /\ activeJobs' = activeJobs
         /\ \A r \in Runs \ {q} : runs'[r] = runs[r]
    ]_vars

\* an invocation was refused while the first run was extracting a clip's metadata
C17_Witness ==
  \E r, q \in Runs :
    /\ runs[q].outcome = "skipped"
    /\ runs[r].pc = "clipProbe"
    /\ VideoId \in activeJobs

\* C18: a call of runCommand settles only by resolving, with an exit code that
\* is a number and the text gathered from the two streams; a child that closes
\* with a null code, the timer not having fired, is reported as exit code 1, and
\* one that closes with a code as that code.
C18_AlwaysResolves ==
  /\ cmd.promise \in {"none", "pending", "resolved"}
  /\ cmd.pc = "settled" =>
       /\ cmd.promise = "resolved"
       /\ cmd.result # NULL
       /\ cmd.result[1].exitCode \in Int
       /\ cmd.result[1].stdout = cmd.stdout
       /\ cmd.result[1].stderr = cmd.stderr
       /\ ~cmd.killedByTimeout =>
            cmd.result[1].exitCode = (IF cmd.code = NULL THEN 1 ELSE cmd.code[1])

\* a child ended by a signal, without the timer, and the call resolved with 1
C18_Witness ==
  /\ cmd.pc = "settled" /\ cmd.code = NULL /\ ~cmd.killedByTimeout
  /\ cmd.result[1].exitCode = 1
  /\ cmd.result[1].stderr # <<>>

\* C19: when the timer has fired before the close event the child, if still
\* running, was sent the kill and the result's exit code is 124 whatever code the
\* child reports; when the close event comes first the timer is cancelled and the
\* exit code is the child's own (1 for null); the kill is only ever sent by the
\* timer.
C19_TimeoutExitCode ==
  /\ cmd.timer = "fired" => cmd.killedByTimeout
  /\ cmd.killed => cmd.timer = "fired"
  /\ (cmd.timer = "fired" /\ cmd.child = "alive") => cmd.killed
  /\ cmd.pc = "settled" =>
       /\ cmd.timer # "armed"
       /\ cmd.timer = "fired" => cmd.result[1].exitCode = TIMEOUT_EXIT
       /\ cmd.timer \in {"cleared", "unset"} =>
            /\ ~cmd.killedByTimeout
            /\ cmd.result[1].exitCode = (IF cmd.code = NULL THEN 1 ELSE cmd.code[1])

\* the timer fired after the child had ended with code 0 and before the close
\* event: the result says 124
C19_Witness ==
  /\ cmd.pc = "settled" /\ cmd.timer = "fired" /\ cmd.code = Some(0)
  /\ cmd.result[1].exitCode = TIMEOUT_EXIT

Returned(c) == calls[c].pc = "idle" /\ calls[c].result # NULL

\* C20: once a call of getDurationSeconds that went to the prober has returned
\* d, every call made after it returns d at once from the stored record, without
\* the prober and without writing; calls that overlap all return d, and the
\* record is stored.
C20_DurationCached ==
  [][/\ \A c \in Callers :
          (calls[c].pc = "idle" /\ calls'[c] # calls[c]
             /\ \E k \in Callers : Returned(k) /\ calls[k].probed) =>
            /\ calls'[c].pc = "idle"
            /\ ~calls'[c].probed
            /\ ~calls'[c].threw
            /\ \A k \in Callers :
                 (Returned(k) /\ calls[k].probed) => calls'[c].result = calls[k].result
            /\ metadata' = metadata
     /\ \A c, k \in Callers :
          (Returned(c)' /\ Returned(k)') =>
            /\ calls'[c].result = calls'[k].result
            /\ metadata' = "known"
    ]_vars

\* two overlapping calls both went to the prober and returned d, and a third call
\* made after them returned d from the stored record
C20_Witness ==
  \E c, k, j \in Callers :
    /\ c # k
    /\ Returned(c) /\ calls[c].probed
    /\ Returned(k) /\ calls[k].probed
    /\ Returned(j) /\ ~calls[j].probed
    /\ calls[j].result = calls[c].result /\ calls[k].result = calls[c].result
    /\ metadata = "known"

(***************************************************************************)
(* Metadata extraction                                                     *)
(***************************************************************************)
HasVideoStream(out) == \E k \in 1..Len(out.streams) : out.streams[k].codec_type = "video"

\* C21: a call of metadata extraction returns a record only if ffprobe exited
\* with code 0, its output parsed as JSON and has at least one video stream; in
\* each of the three other cases the call throws an error and produces no
\* record, defaulted or otherwise.
C21_RecordOnlyFromGoodProbe ==
  probe.outcome # "none" =>
    LET good == /\ probe.exitCode = 0
                /\ probe.out.kind # "text"
                /\ HasVideoStream(probe.out)
    IN
    /\ probe.outcome = "returned" <=> good
    /\ ~good => /\ probe.outcome = "threw"
                /\ probe.error # "none"
                /\ probe.stream = NULL
                /\ probe.fps = NULL

\* ffprobe exited 0 and printed a JSON object whose streams are all audio
C21_Witness ==
  /\ probe.outcome = "threw"
  /\ probe.exitCode = 0
  /\ probe.out.kind = "object"
  /\ Len(probe.out.streams) > 0

\* the expression is a rational a/b with b # 0 and a/b finite and positive
ValidRational(fr) ==
  /\ Len(fr) = 2
  /\ fr[1].fin /\ fr[2].fin
  /\ fr[2].v # 0
  /\ IsPositive(<<fr[1].v, fr[2].v>>)

ExpectedFps(real, average) ==
  IF ValidRational(real) THEN Some(<<real[1].v, real[2].v>>)
  ELSE IF ValidRational(average) THEN Some(<<average[1].v, average[2].v>>)
  ELSE NULL

\* C22: for every pair of frame-rate expressions (real, average) of the primary
\* video stream, absent ones and ones without a slash included, the frame rate
\* of the record is the value of the first of the two that is a valid rational
\* a/b (b # 0, a/b finite and positive), unknown if neither is; it is never
\* zero or negative.
C22_FrameRateValidRational ==
  probe.outcome = "returned" =>
    /\ probe.fps = ExpectedFps(probe.stream[1].r_frame_rate, probe.stream[1].avg_frame_rate)
    /\ probe.fps = NULL \/ IsPositive(probe.fps[1])

(***************************************************************************)
(* Deletion                                                                *)
(***************************************************************************)
\* C23: videos:delete removes the asset's directory first and its row second:
\* whenever the videos row is gone, the copied original and every clip file
\* are gone too, and no clips row and no clip_jobs row of the asset is left,
\* also when a segmenter run was suspended at the time of the deletion and
\* resumes afterwards.
C23_RowGoneOnlyAfterFiles ==
  ~asset.row =>
    /\ ~asset.original
    /\ \A idx \in Indices : files[idx] = "none"
    /\ clips = {}
    /\ job = NULL

\* the asset was deleted while its transcoder ran; the transcoder has exited 0
\* and the run awaits the probe of the clip
C23_Witness ==
  /\ ~asset.row
  /\ \E r \in Runs : runs[r].pc = "clipProbe" /\ runs[r].transcoded # {}

(***************************************************************************)
(* Triggers and runs                                                       *)
(***************************************************************************)
\* C24: the triggers do not wait for the run they start: while a run is
\* suspended at its transcoder the process can handle a status change to any
\* value and a further trigger, and a read of the job state finds the record,
\* in state Generating.
C24_RequestsServedDuringTranscode ==
  (phase = "up" /\ Transcoding # {}) =>
    /\ \A st \in VideoStatus : ENABLED SetStatus(st)
    /\ ENABLED Generate
    /\ JobStateOf(job) = "Generating"

\* a status change has been handled while the transcoder of a run was running
C24_Witness ==
  /\ phase = "up"
  /\ status = "Rejected"
  /\ \E r \in Runs : runs[r].pc = "transcode" /\ runs[r].latest = "Approved"

\* a step in which invocation r of generateClipsForVideo is made
Invoked(r) ==
  /\ phase = "up" /\ phase' = "up"
  /\ runs[r].pc = "idle"
  /\ runs'[r] # runs[r]

\* C25: an invocation of generateClipsForVideo for an asset that is not
\* Approved returns at once: the clip_jobs row (state, error text, exit code,
\* updated_at) and error_message are as before, no clip row and no clip file
\* has changed, nothing is logged, and no probe or transcoder was started.
C25_NotApprovedInvocationNoOp ==
  [][\A r \in Runs :
       (Invoked(r) /\ status' # "Approved") =>
         /\ runs'[r].pc = "idle"
         /\ runs'[r].outcome \in {"notApproved", "skipped"}
         /\ job' = job
         /\ error_message' = error_message
         /\ clips' = clips
         /\ files' = files
         /\ ffmpegLog' = ffmpegLog
         /\ activeJobs' = activeJobs
         /\ metadata' = metadata]_vars

\* an invocation was turned down for the status of an asset that has a Done
\* job, an error message, clip rows and clip files
C25_Witness ==
  /\ \E r \in Runs : runs[r].pc = "idle" /\ runs[r].outcome = "notApproved"
  /\ status # "Approved"
  /\ JobStateOf(job) = "Done"
  /\ clips # {}
  /\ ActiveRuns = {}

\* a step in which run r is stopped by a segment-boundary check
StoppedAtCheck(r) ==
  /\ runs[r].pc # "idle"
  /\ runs'[r].pc = "idle"
  /\ runs'[r].outcome = "stopped"

\* C26: when the boundary check before segment i finds the status not Approved,
\* the run writes JobState Failed with a message naming that status (no exit
\* code, fresh updated_at) and ends; it has started no transcoder for i or a
\* later segment, and the clip files and rows of the segments before i are all
\* there, none deleted or changed by the stop.
C26_StopKeepsEarlierSegments ==
  [][\A r \in Runs :
       StoppedAtCheck(r) =>
         LET idx == runs'[r].i IN
         /\ status' # "Approved"
         /\ runs'[r].latest = status'
         /\ job' = Some([state |-> "Failed", last_stderr |-> <<"Stopped", status'>>,
                         last_exit_code |-> NULL, age |-> 0])
         /\ runs'[r].transcoded = runs[r].transcoded
         /\ \A k \in runs'[r].transcoded : k < idx
         /\ files' = files
         /\ runs'[r].deleted = runs[r].deleted
         /\ clips \subseteq clips'
         /\ \A k \in 0..(idx - 1) : files'[k] = "big" /\ k \in clips'
    ]_vars

\* the check before segment 1 has stopped a run that had transcoded segment 0
C26_Witness ==
  \E r \in Runs :
    /\ runs[r].outcome = "stopped" /\ runs[r].pc = "idle"
    /\ runs[r].i = 1 /\ 0 \in runs[r].transcoded
    /\ JobStateOf(job) = "Failed" /\ job[1].last_stderr = <<"Stopped", status>>
    /\ 0 \in clips

\* a step in which run r starts the transcoder for a segment
TranscoderStarted(r) ==
  /\ runs'[r].pc = "transcode"
  /\ runs[r].pc # "transcode" \/ runs[r].i # runs'[r].i

\* C27: within a run the segments are handled in increasing index order: when
\* the transcoder for segment j is started, every segment below j has its
\* complete file and its row, having been passed over as complete or transcoded
\* (exit 0) and upserted by this run, and nothing above j has been touched; and
\* a transcoder that has closed is followed by the probe of its clip (exit 0)
\* or by the end of the run, never by another transcoder.
C27_SegmentsInOrder ==
  [][\A r \in Runs :
       /\ TranscoderStarted(r) =>
            LET j == runs'[r].i IN
            /\ j \in runs'[r].transcoded
            /\ \A k \in runs'[r].transcoded \cup runs'[r].skipped : k <= j
            /\ \A k \in 0..(j - 1) :
                 /\ files'[k] = "big"
                 /\ k \in clips'
                 /\ \/ k \in runs'[r].skipped
                    \/ k \in runs'[r].transcoded /\ k \in runs'[r].upserted
       /\ (runs[r].pc = "transcode" /\ runs'[r] # runs[r]) =>
            /\ runs'[r].pc \in {"clipProbe", "idle"}
            /\ runs'[r].i = runs[r].i
            /\ runs'[r].transcoded = runs[r].transcoded
            /\ runs'[r].pc = "clipProbe" => files'[runs[r].i] = "big"
    ]_vars

\* the transcoder for segment 1 runs, after segment 0 was transcoded and upserted
C27_Witness ==
  \E r \in Runs :
    /\ runs[r].pc = "transcode" /\ runs[r].i = 1
    /\ runs[r].transcoded = {0, 1} /\ 0 \in runs[r].upserted

UpdatedAtNotDecreased ==
  \/ job' = job
  \/ job' # NULL /\ job'[1].age = 0
  \/ /\ job # NULL /\ job' # NULL
     /\ job'[1].age > job[1].age
     /\ [job'[1] EXCEPT !.age = 0] = [job[1] EXCEPT !.age = 0]

\* C29: in the step that follows the metadata extraction of a transcoded
\* segment and upserts its row, the run writes the clip_jobs row afresh
\* (updated_at now): as Generating with no error text and no exit code if the
\* run goes on.  As long as a run is in progress the state is Generating and
\* updated_at does not decrease.
C29_Heartbeat ==
  [][\A r \in Runs :
       /\ (runs[r].pc = "clipProbe" /\ runs[r].i \in runs'[r].upserted) =>
            /\ job' # NULL /\ job'[1].age = 0
            /\ runs'[r].pc # "idle" =>
                 job' = Some([state |-> "Generating", last_stderr |-> NULL,
                              last_exit_code |-> NULL, age |-> 0])
       /\ (runs[r].pc # "idle" /\ runs'[r].pc # "idle") =>
            /\ JobStateOf(job) = "Generating"
            /\ JobStateOf(job') = "Generating"
            /\ UpdatedAtNotDecreased
    ]_vars

\* the heartbeat after segment 0 has been written and the transcoder for
\* segment 1 runs
C29_Witness ==
  \E r \in Runs :
    /\ runs[r].pc = "transcode" /\ runs[r].i = 1 /\ 0 \in runs[r].upserted
    /\ job = Some([state |-> "Generating", last_stderr |-> NULL,
                   last_exit_code |-> NULL, age |-> 0])

(***************************************************************************)
(* Status                                                                  *)
(***************************************************************************)
\* C30: the asset is created Pending, and its status changes only in a step of
\* the videos:setStatus handler, to the value the handler was given; no step of
\* a run (segmenter, backfill pre-pass, duration resolver, metadata
\* extraction), of the recovery sweep, of a crash or of the clock changes it,
\* and neither does the run a trigger starts.
C30_StatusOnlyBySetStatus ==
  /\ status = "Pending"
  /\ [][status' # status => \E st \in VideoStatus : SetStatus(st) /\ status' = st]_vars

\* the asset is still Approved after a run for it crashed and the recovery
\* sweep marked its job Failed
C30_Witness ==
  /\ status = "Approved"
  /\ phase = "up"
  /\ job # NULL /\ job[1].state = "Failed" /\ job[1].last_stderr = <<"Recovery">>
  /\ \E r \in Runs : runs[r].outcome = "crashed" /\ runs[r].upserted # {}

IsCanonicalName(f) ==
  /\ f.stem = "clip_" /\ f.ext = ".mp4"
  /\ f.digits \in [1..3 -> {DigitChars[d] : d \in 1..Len(DigitChars)}]

\* the entries that are regular files of more than 1024 bytes with such a name
CanonicalClipFiles(dir) ==
  {f \in DOMAIN dir : /\ IsCanonicalName(f)
                      /\ dir[f] # NULL
                      /\ dir[f][1].isFile /\ dir[f][1].size > 1024}

\* C32: a scan counts, and writes a row for, only directory entries named
\* clip_<exactly 3 digits>.mp4 that are regular files larger than 1024 bytes;
\* no other entry is counted as scanned or causes a row to be written
C32_OnlyCanonicalFilesScanned ==
  /\ scan.counted \subseteq CanonicalClipFiles(scan.dir)
  /\ scan.scanned = Cardinality(scan.counted)
  /\ scan.rows \subseteq {ToNumber(f.digits) : f \in scan.counted}

\* a scan has returned from a directory holding a clip, a large file with a
\* four-digit name, and a clip name on a file of exactly 1024 bytes
C32_Witness ==
  /\ scan.outcome = "returned"
  /\ DOMAIN scan.dir = {clipPath(0), clipPath(1),
                        [stem |-> "clip_", digits |-> <<"0", "0", "0", "1">>, ext |-> ".mp4"]}
  /\ scan.dir[clipPath(0)] = Some([isFile |-> TRUE, size |-> 1025])
  /\ scan.dir[clipPath(1)] = Some([isFile |-> TRUE, size |-> 1024])
  /\ scan.dir[[stem |-> "clip_", digits |-> <<"0", "0", "0", "1">>, ext |-> ".mp4"]]
       = Some([isFile |-> TRUE, size |-> 1025])
  /\ scan.rows = {0} /\ scan.scanned = 1

SweptJob(j) == JobStateOf(j) = "Failed" /\ j[1].last_stderr = <<"Recovery">>

\* C33: the recovery sweep acts only in the step that brings the process up,
\* before any handler can be invoked: the job is set to Failed by recovery
\* only in that step, in which no run of the new process exists, and in no
\* later step of the process.
C33_SweepOnlyAtStartup ==
  [][(SweptJob(job') /\ ~SweptJob(job)) =>
        /\ phase = "down" /\ phase' = "up"
        /\ activeJobs' = {}
        /\ \A r \in Runs : runs'[r].pc = "idle"
    ]_vars

\* the process is up and a run is waiting for the transcoder of its second
\* clip, on a job that has been Generating for more than the staleness window
C33_Witness ==
  /\ phase = "up"
  /\ \E r \in Runs : runs[r].pc = "transcode" /\ runs[r].i = 1
  /\ VideoId \in activeJobs
  /\ JobStateOf(job) = "Generating" /\ job[1].age > STALE_MS

\* C34: an output file left behind by a transcoder that exited non-zero (or was
\* killed by its timeout) is not accepted as a complete clip: the run that
\* follows a run that failed at index k does not take the already-complete
\* branch for k.
C34_FailedOutputNotAccepted ==
  [][\A r \in Runs :
       (runs[r].pc = "idle" /\ runs[r].outcome = "failed" /\ runs'[r].pc # "idle") =>
          ~(runs'[r].pc = "skipProbe" /\ runs'[r].i = runs[r].i)
    ]_vars

\* C35: every run that has taken the in-flight guard ends and releases it,
\* provided each external command it awaits closes (by exiting or by being
\* killed at its timeout).
C35_RunEndsAndReleases ==
  \A r \in Runs :
    (runs[r].pc # "idle") ~> (runs[r].pc = "idle" /\ VideoId \notin activeJobs)

\* a run whose second transcode was killed at its timeout has ended and the
\* guard is free
C35_Witness ==
  /\ \E r \in Runs : /\ runs[r].pc = "idle" /\ runs[r].outcome = "failed"
                     /\ runs[r].exitCode = TIMEOUT_EXIT /\ runs[r].i = 1
  /\ activeJobs = {}

\* C36: the fields of the job record agree with its state.  Done: exit code 0
\* and no error text.  Generating: no exit code and no error text.  Failed:
\* an error text, with a non-zero exit code when the transcoder failed and no
\* exit code when the run was stopped by a status change or the job was failed
\* by recovery.
C36_JobFieldsAgree ==
  job # NULL =>
    CASE job[1].state = "Done" ->
           job[1].last_exit_code = Some(0) /\ job[1].last_stderr = NULL
      [] job[1].state = "Generating" ->
           job[1].last_exit_code = NULL /\ job[1].last_stderr = NULL
      [] job[1].state = "Failed" ->
           /\ job[1].last_stderr # NULL
           /\ job[1].last_stderr[1] \in {"ffmpeg", "Stopped", "Recovery"}
           /\ job[1].last_stderr[1] = "ffmpeg" =>
                job[1].last_exit_code # NULL /\ job[1].last_exit_code[1] # 0
           /\ job[1].last_stderr[1] \in {"Stopped", "Recovery"} =>
                job[1].last_exit_code = NULL
      [] OTHER -> FALSE

\* a transcode failed earlier, and a later run has ended with the job Done
C36_Witness ==
  /\ JobStateOf(job) = "Done"
  /\ ffmpegLog # {}
  /\ \E r \in Runs : runs[r].pc = "idle" /\ runs[r].outcome = "done"

\* C37: once the asset's videos row is deleted it is not created again, no
\* clips row and no clip_jobs row exists for it, and a run that was in progress
\* at the deletion only goes from its transcoder to the probe of the clip or
\* ends, releasing the in-flight guard, without writing a row.
C37_DeletedAssetStaysGone ==
  [][/\ ~asset.row' =>
         clips' = {} /\ job' = NULL /\ \A idx \in Indices : clipRows'[idx] = 0
     /\ ~asset.row =>
         /\ ~asset.row'
         /\ \A r \in Runs :
              runs'[r] # runs[r] =>
                /\ runs[r].pc # "idle"
                /\ \/ runs[r].pc = "transcode" /\ runs'[r].pc = "clipProbe"
                   \/ runs'[r].pc = "idle" /\ VideoId \notin activeJobs'
    ]_vars

\* the asset was deleted while the transcoder of its second clip ran; the
\* transcoder was killed at its timeout, and the run has ended with the guard
\* released
C37_Witness ==
  /\ ~asset.row
  /\ \E r \in Runs : /\ runs[r].pc = "idle" /\ runs[r].outcome = "threw"
                     /\ runs[r].i = 1 /\ runs[r].transcoded = {0}
  /\ <<1, TIMEOUT_EXIT>> \in ffmpegLog
  /\ activeJobs = {}

\* C38: the file name the segmenter writes for clip index i is accepted by the
\* scanner's parser and parses back to i.
C38_NameParsesBack ==
  naming.written => naming.parsed = Some(naming.index)

\* C39: no step of a run or of a scan removes a clips row or a clip file larger
\* than 1024 bytes: the rows only grow, and a file disappears only when it was
\* an incomplete file at the index whose transcoder the run starts next.
C39_RowsAndCompleteFilesKept ==
  [][/\ clips \subseteq clips'
     /\ \A idx \in Indices :
          /\ clipRows[idx] <= clipRows'[idx]
          /\ files[idx] = "big" => files'[idx] = "big"
          /\ (files[idx] # "none" /\ files'[idx] = "none") =>
               /\ files[idx] = "small"
               /\ \E r \in Runs : /\ runs'[r].pc = "transcode" /\ runs'[r].i = idx
                                  /\ idx \in runs'[r].deleted
    ]_vars

\* a scan of the handler has written the row of clip 0, and a run that skipped
\* clip 0 has removed a partial file at index 1 and waits for its transcoder
C39_Witness ==
  /\ bf.outcome = "returned" /\ bf.upserted >= 1
  /\ 0 \in clips /\ files[0] = "big"
  /\ \E r \in Runs : /\ runs[r].pc = "transcode" /\ runs[r].i = 1
                     /\ runs[r].deleted = {1} /\ 0 \in runs[r].skipped

\* C40: when backfillClipMetadata returns, scanned and upserted are equal and
\* are the number of entries named clip_<3 digits>.mp4 that are regular files
\* larger than 1024 bytes; called on a missing clip directory it returns
\* scanned = upserted = 0 and does not throw.
C40_CountsOnReturn ==
  /\ scan.outcome = "returned" =>
       /\ scan.scanned = scan.upserted
       /\ scan.scanned = Cardinality(CanonicalClipFiles(scan.dir))
  /\ (scan.missing /\ scan.pc # "idle") =>
       scan.outcome = "returned" /\ scan.scanned = 0 /\ scan.upserted = 0

\* a scan has returned 2 and 2 from a directory of two clips and a directory
\* entry named like a clip
C40_Witness ==
  /\ scan.outcome = "returned" /\ scan.scanned = 2 /\ scan.upserted = 2
  /\ scan.rows = {0, 1}
  /\ \E f \in DOMAIN scan.dir : scan.dir[f] # NULL /\ ~scan.dir[f][1].isFile
====
